---- MODULE Spec2Model ----
(***************************************************************************)
(* Model of the LiteLLM gateway operator.                                  *)
(*                                                                         *)
(* Two reconcilers live in the sources: AiGatewayReconciler                *)
(* (internal/controller/aigateway_controller.go) and its predecessor       *)
(* ModelRouterReconciler (unnamed/part_002 with modelrouter_generators.go).*)
(* One gateway object of each kind is modelled, together with its three    *)
(* children (ConfigMap, Deployment, Service) as the API server stores      *)
(* them.  A reconcile pass is one action; the API calls that may fail are  *)
(* chosen by an input of the action.  Users and other controllers act on   *)
(* the stored objects between passes.                                      *)
(*                                                                         *)
(* Strings built with fmt.Sprintf are built with \o.  Maps are functions;  *)
(* a nil map and an empty map are both the empty function (the code reads  *)
(* them alike and replaces nil by an empty map before writing).            *)
(***************************************************************************)
EXTENDS Integers, Sequences, FiniteSets, TLC

VARIABLES
    gwExists,    \* the AiGateway object is stored in the API server
    gwSpec,      \* its spec, as the user wrote it
    gwStatus,    \* its persisted status
    classes,     \* the stored AiGatewayClass objects
    mrExists,    \* the ModelRouter object is stored in the API server
    mrSpec,      \* its spec
    mrStatus,    \* its persisted status
    cm,          \* stored ConfigMap <name>-config, or NotFound
    dep,         \* stored Deployment <name>, or NotFound
    svc,         \* stored Service <name>, or NotFound
    last,        \* what the most recent pass did (NoPass after any other step)
    sync,        \* "clean": children are as a fully successful pass left them;
                 \* "reordered": so they are, and spec.aiModels was reordered since
    events,      \* number of disturbances so far: steps of users and other actors,
                 \* and passes in which an API call failed
    call         \* the most recent call of a function of the packages on its own

gwVars == <<gwExists, gwSpec, gwStatus, classes>>
mrVars == <<mrExists, mrSpec, mrStatus>>
vars == <<gwVars, mrVars, cm, dep, svc, last, sync, events, call>>

----------------------------------------------------------------------------
(* Bounds *)

MaxEvents == 2

\* longest list handed to a function that is called on its own
MaxLen == 2

----------------------------------------------------------------------------
(* Values *)

Nil == "nil"                      \* no error
NotFound == [found |-> FALSE]     \* the object is not stored
NoSource == [none |-> TRUE]       \* EnvVar.ValueFrom == nil
EmptyText == [raw |-> ""]         \* the empty string, where a text is expected
NoPass == [ran |-> FALSE]
NoCall == [fn |-> "none"]
NoLabels == <<>>

GwName == "gw"
GwKind == "AiGateway"

ControllerName == "aigateway.agentic-layer.ai/ai-gateway-litellm-controller"
OtherControllerName == "example.com/other-controller"
DefaultClassAnnotation == "aigatewayclass.kubernetes.io/is-default-class"
ConfigHashAnnotation == "gateway.agentic-layer.ai/config-hash"
LiteLLMImage == "ghcr.io/berriai/litellm:v1.77.2-stable"

DefaultRequestTimeout == 600
DefaultSecretName == "api-key-secrets"
AiGatewayConfigured == "AiGatewayConfigured"
AiGatewayReady == "AiGatewayReady"
ReasonConfigurationApplied == "ConfigurationApplied"
ReasonAiGatewayReady == "AiGatewayReady"

ConditionTrue == "True"
ConditionFalse == "False"

\* map[key] of Go: the zero value "" for a missing key
MapGet(m, k) == IF k \in DOMAIN m THEN m[k] ELSE ""

\* the same for maps whose values are texts (config.yaml, the config hash)
TextGet(m, k) == IF k \in DOMAIN m THEN m[k] ELSE EmptyText

\* a merge that drops the entries of dst
MapMergeReplacing(dst, src) == src

\* a merge in which the entries already present win
MapMergeKeepingOld(dst, src) ==
    [k \in DOMAIN dst \cup DOMAIN src |-> IF k \in DOMAIN dst THEN dst[k] ELSE src[k]]

\* for key, value := range src { dst[key] = value }
MapMerge(dst, src) ==
    [k \in (DOMAIN dst) \cup (DOMAIN src) |-> IF k \in DOMAIN src THEN src[k] ELSE dst[k]]

\* strings.ToUpper on the providers in use
ToUpper(s) ==
    CASE s = "openai" -> "OPENAI"
      [] s = "anthropic" -> "ANTHROPIC"
      [] s = "ollama" -> "OLLAMA"
      [] s = "custom" -> "CUSTOM"
      [] s = "gpt-4" -> "GPT-4"
      [] s = "azure" -> "AZURE"
      [] s = "gemini" -> "GEMINI"
      [] s = "bedrock" -> "BEDROCK"
      [] s = "huggingface" -> "HUGGINGFACE"
      [] s = "OpenAI" -> "OPENAI"
      [] s = "" -> ""
      [] OTHER -> s

\* strings.ToLower on the providers in use
ToLower(s) ==
    CASE s = "OpenAI" -> "openai"
      [] s = "Ollama" -> "ollama"
      [] s = "BEDROCK" -> "bedrock"
      [] OTHER -> s

\* a port text that does not follow the port
ItoaFixed(n) == "4000"

\* strconv.Itoa on the ports in use
Itoa(n) ==
    CASE n = 8000 -> "8000"
      [] n = 8080 -> "8080"
      [] n = 4000 -> "4000"
      [] n = 0 -> "0"
      [] n = -1 -> "-1"
      [] OTHER -> "?"

----------------------------------------------------------------------------
(* Inputs *)

Ports == {8000, 8080, 0}

AiModelLists == {
    <<>>,
    <<[name |-> "gpt-4", provider |-> "openai"]>>,
    <<[name |-> "gpt-4", provider |-> "openai"], [name |-> "llama2", provider |-> "ollama"]>>,
    <<[name |-> "llama2", provider |-> "ollama"], [name |-> "gpt-4", provider |-> "openai"]>>,
    <<[name |-> "", provider |-> "openai"]>> }

ClassNames == {"", "litellm", "other"}

EnvLists == { <<>>, <<[name |-> "FOO", value |-> "bar", valueFrom |-> NoSource]>> }

EnvFromLists == { <<>>, <<[configMapRef |-> "test-config"]>> }

\* the classes of this controller and of another one, as stored
LitellmClass(isDefault) ==
    [name |-> "litellm", controller |-> ControllerName,
     annotations |-> IF isDefault THEN (DefaultClassAnnotation :> "true") ELSE NoLabels]

OtherClass ==
    [name |-> "other", controller |-> OtherControllerName, annotations |-> NoLabels]

ClassSets == { {}, {OtherClass}, {LitellmClass(FALSE), OtherClass}, {LitellmClass(TRUE), OtherClass} }

ForeignLabelKeys == {"team"}

Faults == {"none", "getAiGateway", "listClasses", "marshal",
           "getConfigMap", "writeConfigMap", "getDeployment", "writeDeployment",
           "getService", "writeService"}

RECURSIVE SeqsOver(_)
\* all sequences that enumerate the set S without repetition
SeqsOver(S) ==
    IF S = {} THEN { <<>> }
    ELSE UNION { { <<x>> \o t : t \in SeqsOver(S \ {x}) } : x \in S }

Range(s) == { s[i] : i \in DOMAIN s }

----------------------------------------------------------------------------
(* Equality utilities (package equality) *)

\* a.Name < b.Name on the variable names in use (byte order of Go strings)
NameRank(n) ==
    CASE n = "ANTHROPIC_API_KEY" -> 1
      [] n = "AZURE_API_KEY" -> 2
      [] n = "CUSTOM_API_KEY" -> 3
      [] n = "FOO" -> 4
      [] n = "GPT-4_API_KEY" -> 5
      [] n = "LITELLM_LOG" -> 6
      [] n = "OLLAMA_API_KEY" -> 7
      [] n = "OPENAI_API_KEY" -> 8
      [] n = "_API_KEY" -> 9
      [] OTHER -> 10

NameLess(a, b) == NameRank(a.name) < NameRank(b.name)

RECURSIVE InsertSorted(_, _)
\* x placed after every element that is not greater than it (stable)
InsertSorted(x, s) ==
    IF s = <<>> THEN <<x>>
    ELSE IF NameLess(x, Head(s)) THEN <<x>> \o s
    ELSE <<Head(s)>> \o InsertSorted(x, Tail(s))

RECURSIVE SortSlices(_)
\* cmpopts.SortSlices with the less function of EnvVarsEqual: a stable sort by name
SortSlices(s) ==
    IF s = <<>> THEN <<>>
    ELSE InsertSorted(s[Len(s)], SortSlices(SubSeq(s, 1, Len(s) - 1)))

\* A Go slice: nil, or present with its elements (possibly none).
NilSlice == [isNil |-> TRUE, elems |-> <<>>]

Slice(elems) == [isNil |-> FALSE, elems |-> elems]

\* a list read back from the API server: an empty list is decoded as nil
Decoded(elems) == [isNil |-> elems = <<>>, elems |-> elems]

\* A Go map: nil, or present with its entries (possibly none).
NilMap == [isNil |-> TRUE, entries |-> NoLabels]

GoMap(entries) == [isNil |-> FALSE, entries |-> entries]

\* a map read back from the API server: an empty map is decoded as nil
DecodedMap(entries) == [isNil |-> DOMAIN entries = {}, entries |-> entries]

\* a comparison that does not sort first
EnvVarsSameOrder(existing, desired) ==
    existing.isNil = desired.isNil /\ existing.elems = desired.elems

\* cmp.Equal tells a nil slice from an empty one; SortSlices sorts both sides
EnvVarsEqual(existing, desired) ==
    existing.isNil = desired.isNil /\ SortSlices(existing.elems) = SortSlices(desired.elems)

\* a < b on the provider and model names in use (byte order of Go strings)
StringRank(str) ==
    CASE str = "azure" -> 1
      [] str = "gemini" -> 2
      [] str = "gemini-1.5-pro" -> 3
      [] str = "gpt-4" -> 4
      [] str = "openai" -> 5
      [] OTHER -> 6

\* sortFunc of AiModelsEqual: by provider, then by name
ModelLess(a, b) ==
    IF a.provider # b.provider
    THEN StringRank(a.provider) < StringRank(b.provider)
    ELSE StringRank(a.name) < StringRank(b.name)

RECURSIVE InsertModel(_, _)
InsertModel(x, s) ==
    IF s = <<>> THEN <<x>>
    ELSE IF ModelLess(x, Head(s)) THEN <<x>> \o s
    ELSE <<Head(s)>> \o InsertModel(x, Tail(s))

RECURSIVE SortModels(_)
\* cmpopts.SortSlices with the less function of AiModelsEqual
SortModels(s) ==
    IF s = <<>> THEN <<>>
    ELSE InsertModel(s[Len(s)], SortModels(SubSeq(s, 1, Len(s) - 1)))

\* a comparison of the first elements only
AiModelsEqualAtHead(existing, desired) ==
    /\ existing.isNil = desired.isNil
    /\ Len(existing.elems) = Len(desired.elems)
    /\ existing.elems # <<>> => SortModels(existing.elems)[1] = SortModels(desired.elems)[1]

AiModelsEqual(existing, desired) ==
    existing.isNil = desired.isNil /\ SortModels(existing.elems) = SortModels(desired.elems)

\* a comparison that tolerates no label beyond the required ones
RequiredLabelsOnly(existing, required) == existing = required

RequiredLabelsPresent(existing, required) ==
    \A key \in DOMAIN required :
        key \in DOMAIN existing /\ existing[key] = required[key]

----------------------------------------------------------------------------
(* AiGatewayReconciler: pure parts *)

\* controllerutil.SetControllerReference: the single controller owner reference
ControllerRef(kind, name) == [kind |-> kind, name |-> name, controller |-> TRUE]

Condition(conditionType, status, reason, message) ==
    [type |-> conditionType, status |-> status, reason |-> reason, message |-> message]

shouldProcessAiGateway(aiGateway, classList, listFails) ==
    IF listFails THEN FALSE
    ELSE LET litellmClasses == { c \in classList : c.controller = ControllerName }
             aiGatewayClassName == aiGateway.aiGatewayClassName
         IN IF aiGatewayClassName # "" /\ \E c \in litellmClasses : c.name = aiGatewayClassName
            THEN TRUE
            ELSE \E c \in litellmClasses : MapGet(c.annotations, DefaultClassAnnotation) = "true"

getProviderApiKeyEnvVar(model) == ToUpper(model.provider) \o "_API_KEY"

\* sha256 of the text, cut to 16 hex digits: modelled as a one-to-one tag of the text
Sha256Hex16(text) == [sha256 |-> text]

\* a rendering that routes to the bare model name
generateAiGatewayConfigBareName(aiGateway, marshalFails) ==
    [configData |->
        [model_list |-> [i \in DOMAIN aiGateway.aiModels |->
                            [model_name |-> aiGateway.aiModels[i].name,
                             litellm_params |->
                                [model |-> aiGateway.aiModels[i].name,
                                 api_key |-> "os.environ/"
                                               \o getProviderApiKeyEnvVar(aiGateway.aiModels[i])]]],
         litellm_settings |-> [request_timeout |-> DefaultRequestTimeout]],
     configHash |-> EmptyText,
     err |-> IF marshalFails THEN "failed to marshal LiteLLM config" ELSE Nil]

\* a rendering whose hash is taken over the whole spec
generateAiGatewayConfigHashingSpec(aiGateway, marshalFails) ==
    [configData |->
        [model_list |-> [i \in DOMAIN aiGateway.aiModels |->
                            [model_name |-> aiGateway.aiModels[i].name,
                             litellm_params |->
                                [model |-> aiGateway.aiModels[i].provider \o "/"
                                             \o aiGateway.aiModels[i].name,
                                 api_key |-> "os.environ/"
                                               \o getProviderApiKeyEnvVar(aiGateway.aiModels[i])]]],
         litellm_settings |-> [request_timeout |-> DefaultRequestTimeout]],
     configHash |-> Sha256Hex16(aiGateway),
     err |-> IF marshalFails THEN "failed to marshal LiteLLM config" ELSE Nil]

\* the YAML text is modelled by the structure that is marshalled
generateAiGatewayConfig(aiGateway, marshalFails) ==
    LET modelList == [i \in DOMAIN aiGateway.aiModels |->
                        [model_name |-> aiGateway.aiModels[i].name,
                         litellm_params |->
                            [model |-> aiGateway.aiModels[i].provider \o "/" \o aiGateway.aiModels[i].name,
                             api_key |-> "os.environ/" \o getProviderApiKeyEnvVar(aiGateway.aiModels[i])]]]
        config == [model_list |-> modelList,
                   litellm_settings |-> [request_timeout |-> DefaultRequestTimeout]]
    IN IF marshalFails
       THEN [configData |-> EmptyText, configHash |-> EmptyText, err |-> "failed to marshal LiteLLM config"]
       ELSE [configData |-> config, configHash |-> Sha256Hex16(config), err |-> Nil]

\* the names collected in the apiKeyEnvVars map
ApiKeyEnvVars(aiGateway) ==
    { getProviderApiKeyEnvVar(aiGateway.aiModels[i]) : i \in DOMAIN aiGateway.aiModels } \ {""}

SecretEnvVar(envVarName) ==
    [name |-> envVarName, value |-> "",
     valueFrom |-> [secretKeyRef |-> [name |-> DefaultSecretName, key |-> envVarName, optional |-> TRUE]]]

\* an env list with one variable per model instead of one per key name
buildEnvironmentVariablesPerModel(aiGateway, order) ==
    <<[name |-> "LITELLM_LOG", value |-> "INFO", valueFrom |-> NoSource]>>
        \o [i \in DOMAIN aiGateway.aiModels |->
                SecretEnvVar(getProviderApiKeyEnvVar(aiGateway.aiModels[i]))]

\* order: the order in which the range over the apiKeyEnvVars map yields its keys
buildEnvironmentVariables(aiGateway, order) ==
    <<[name |-> "LITELLM_LOG", value |-> "INFO", valueFrom |-> NoSource]>>
        \o [i \in DOMAIN order |-> SecretEnvVar(order[i])]

\* a condition update that always appends
updateConditionAppending(conditions, conditionType, status, reason, message) ==
    Append(conditions, Condition(conditionType, status, reason, message))

\* a condition update that never replaces an entry
updateConditionKeepingOld(conditions, conditionType, status, reason, message) ==
    IF \E i \in DOMAIN conditions : conditions[i].type = conditionType
    THEN conditions
    ELSE Append(conditions, Condition(conditionType, status, reason, message))

updateCondition(conditions, conditionType, status, reason, message) ==
    LET condition == Condition(conditionType, status, reason, message)
        hits == { i \in DOMAIN conditions : conditions[i].type = conditionType }
    IN IF hits # {}
       THEN LET first == CHOOSE i \in hits : \A j \in hits : i <= j
            IN [conditions EXCEPT ![first] = condition]
       ELSE Append(conditions, condition)

----------------------------------------------------------------------------
(* AiGatewayReconciler: the three child steps.  Each returns the object as  *)
(* stored afterwards, the error (Nil for none) and the API calls issued.    *)

\* a step that issues its last call once more when it failed
StepResultRetrying(obj, err, calls) ==
    [obj |-> obj, err |-> err,
     calls |-> IF err = Nil THEN calls ELSE Append(calls, calls[Len(calls)])]

\* a step after which the object is gone
StepResultDroppingObject(obj, err, calls) == [obj |-> NotFound, err |-> err, calls |-> calls]

\* a step that returns nil where it should return its error
StepResultWithoutError(obj, err, calls) == [obj |-> obj, err |-> Nil, calls |-> calls]

StepResult(obj, err, calls) == [obj |-> obj, err |-> err, calls |-> calls]

reconcileConfigMap(aiGateway, configData, existing, fault) ==
    LET configMap == [labels |-> ("app" :> GwName),
                      data |-> ("config.yaml" :> configData),
                      ownerReferences |-> <<ControllerRef(GwKind, GwName)>>]
    IN IF fault = "getConfigMap"
       THEN StepResult(existing, "failed to get ConfigMap", <<"Get ConfigMap">>)
       ELSE IF existing = NotFound
       THEN IF fault = "writeConfigMap"
            THEN StepResult(existing, "create failed", <<"Get ConfigMap", "Create ConfigMap">>)
            ELSE StepResult(configMap, Nil, <<"Get ConfigMap", "Create ConfigMap">>)
       ELSE LET needsUpdate ==
                    \/ TextGet(existing.data, "config.yaml") # configData
                    \/ ~RequiredLabelsPresent(existing.labels, configMap.labels)
                updated == [existing EXCEPT !.data = configMap.data,
                                            !.labels = MapMerge(existing.labels, configMap.labels)]
            IN IF ~needsUpdate
               THEN StepResult(existing, Nil, <<"Get ConfigMap">>)
               ELSE IF fault = "writeConfigMap"
               THEN StepResult(existing, "update failed", <<"Get ConfigMap", "Update ConfigMap">>)
               ELSE StepResult(updated, Nil, <<"Get ConfigMap", "Update ConfigMap">>)

\* the pod spec of the desired Deployment
PodSpec(aiGateway, order) ==
    [containers |-> <<[name |-> "litellm",
                       image |-> LiteLLMImage,
                       ports |-> <<[name |-> "http", containerPort |-> aiGateway.port, protocol |-> "TCP"]>>,
                       volumeMounts |-> <<[name |-> "config", mountPath |-> "/app/config", readOnly |-> TRUE]>>,
                       command |-> <<"litellm", "--config", "/app/config/config.yaml",
                                     "--port", Itoa(aiGateway.port)>>,
                       env |-> buildEnvironmentVariables(aiGateway, order),
                       envFrom |-> <<>>]>>,
     volumes |-> <<[name |-> "config", configMap |-> GwName \o "-config"]>>]

reconcileDeployment(aiGateway, configHash, order, existing, fault) ==
    LET labels == ("app" :> GwName)
        deployment == [labels |-> labels,
                       ownerReferences |-> <<ControllerRef(GwKind, GwName)>>,
                       replicas |-> 1,
                       selector |-> ("app" :> GwName),
                       templateLabels |-> labels,
                       templateAnnotations |-> (ConfigHashAnnotation :> configHash),
                       podSpec |-> PodSpec(aiGateway, order)]
    IN IF fault = "getDeployment"
       THEN StepResult(existing, "failed to get Deployment", <<"Get Deployment">>)
       ELSE IF existing = NotFound
       THEN IF fault = "writeDeployment"
            THEN StepResult(existing, "create failed", <<"Get Deployment", "Create Deployment">>)
            ELSE StepResult(deployment, Nil, <<"Get Deployment", "Create Deployment">>)
       ELSE LET existingContainers == existing.podSpec.containers
                newContainers == deployment.podSpec.containers
                existingPorts == existingContainers[1].ports
                newPorts == newContainers[1].ports
                needsUpdate ==
                    \/ ~RequiredLabelsPresent(existing.labels, deployment.labels)
                    \/ ~RequiredLabelsPresent(existing.templateLabels, deployment.templateLabels)
                    \/ TextGet(existing.templateAnnotations, ConfigHashAnnotation) # configHash
                    \/ /\ Len(existingContainers) > 0
                       /\ Len(newContainers) > 0
                       /\ \/ ~EnvVarsEqual(Decoded(existingContainers[1].env),
                                          Slice(newContainers[1].env))
                          \/ existingContainers[1].image # newContainers[1].image
                          \/ Len(existingPorts) # Len(newPorts)
                          \/ /\ Len(existingPorts) > 0
                             /\ Len(newPorts) > 0
                             /\ existingPorts[1].containerPort # newPorts[1].containerPort
                updated == [existing EXCEPT
                              !.labels = MapMerge(existing.labels, deployment.labels),
                              !.templateLabels = MapMerge(existing.templateLabels, deployment.templateLabels),
                              !.templateAnnotations =
                                  MapMerge(existing.templateAnnotations, deployment.templateAnnotations),
                              !.replicas = deployment.replicas,
                              !.selector = deployment.selector,
                              !.podSpec = deployment.podSpec]
            IN IF ~needsUpdate
               THEN StepResult(existing, Nil, <<"Get Deployment">>)
               ELSE IF fault = "writeDeployment"
               THEN StepResult(existing, "update failed", <<"Get Deployment", "Update Deployment">>)
               ELSE StepResult(updated, Nil, <<"Get Deployment", "Update Deployment">>)

\* a Service step that only looks
reconcileServiceReadOnly(aiGateway, existing, fault) ==
    StepResult(existing, Nil, <<"Get Service">>)

reconcileService(aiGateway, existing, fault) ==
    LET labels == ("app" :> GwName)
        service == [labels |-> labels,
                    ownerReferences |-> <<ControllerRef(GwKind, GwName)>>,
                    selector |-> ("app" :> GwName),
                    ports |-> <<[name |-> "http", port |-> aiGateway.port,
                                 targetPort |-> aiGateway.port, protocol |-> "TCP"]>>,
                    type |-> "ClusterIP"]
    IN IF fault = "getService"
       THEN StepResult(existing, "failed to get Service", <<"Get Service">>)
       ELSE IF existing = NotFound
       THEN IF fault = "writeService"
            THEN StepResult(existing, "create failed", <<"Get Service", "Create Service">>)
            ELSE StepResult(service, Nil, <<"Get Service", "Create Service">>)
       ELSE LET needsUpdate ==
                    \/ ~RequiredLabelsPresent(existing.labels, service.labels)
                    \/ /\ Len(existing.ports) > 0
                       /\ Len(service.ports) > 0
                       /\ existing.ports[1].port # service.ports[1].port
                updated == [existing EXCEPT !.ports = service.ports,
                                            !.labels = MapMerge(existing.labels, service.labels)]
            IN IF ~needsUpdate
               THEN StepResult(existing, Nil, <<"Get Service">>)
               ELSE IF fault = "writeService"
               THEN StepResult(existing, "update failed", <<"Get Service", "Update Service">>)
               ELSE StepResult(updated, Nil, <<"Get Service", "Update Service">>)

----------------------------------------------------------------------------
(* AiGatewayReconciler.Reconcile *)

Children(c, d, s) == [cm |-> c, dep |-> d, svc |-> s]

\* updateStatus: r.Status().Update; on failure the stored status stays as it was
updateStatus(persisted, conditions, statusFails) ==
    IF statusFails
    THEN [status |-> persisted, err |-> "status update failed"]
    ELSE [status |-> [persisted EXCEPT !.conditions = conditions], err |-> Nil]

\* ctrl.Result{}: no requeue is asked for
EmptyResult == [requeue |-> FALSE, requeueAfter |-> 0]

\* an early return that writes the status first
ReturnPassWritingStatus(outcome, hit, returnsErr, children, persisted, calls) ==
    [outcome |-> outcome, hit |-> hit, result |-> EmptyResult, err |-> returnsErr, children |-> children,
     status |-> persisted, statusWrite |-> "ok",
     calls |-> Append(calls, "UpdateStatus AiGateway")]

\* return ctrl.Result{}, err  before any status write
\* hit: the API call that failed in this pass, "none" when every call went through
ReturnPass(outcome, hit, returnsErr, children, persisted, calls) ==
    [outcome |-> outcome, hit |-> hit, result |-> EmptyResult, err |-> returnsErr, children |-> children,
     status |-> persisted, statusWrite |-> "none", calls |-> calls]

\* a pass end that drops the error of the status write
FinishPassDroppingError(outcome, hit, children, persisted, conditions, statusFails, calls) ==
    [outcome |-> outcome, hit |-> hit, result |-> EmptyResult, err |-> FALSE, children |-> children,
     status |-> IF statusFails THEN persisted ELSE [persisted EXCEPT !.conditions = conditions],
     statusWrite |-> IF statusFails THEN "failed" ELSE "ok",
     calls |-> Append(calls, "UpdateStatus AiGateway")]

\* if err := r.updateStatus(ctx, &aiGateway); err != nil { return ctrl.Result{}, err }
\* return ctrl.Result{}, nil
FinishPass(outcome, hit, children, persisted, conditions, statusFails, calls) ==
    LET w == updateStatus(persisted, conditions, statusFails)
    IN [outcome |-> outcome, hit |-> hit, result |-> EmptyResult, err |-> (w.err # Nil), children |-> children,
        status |-> w.status,
        statusWrite |-> IF w.err # Nil THEN "failed" ELSE "ok",
        calls |-> Append(calls, "UpdateStatus AiGateway")]

ReconcileResult(found, aiGateway, persisted, classList, children, fault, statusFails, order) ==
    IF fault = "getAiGateway"
    THEN ReturnPass("getFailed", fault, TRUE, children, persisted, <<"Get AiGateway">>)
    ELSE IF ~found
    THEN ReturnPass("notFound", "none", FALSE, children, persisted, <<"Get AiGateway">>)
    ELSE IF ~shouldProcessAiGateway(aiGateway, classList, fault = "listClasses")
    THEN ReturnPass("notResponsible", IF fault = "listClasses" THEN fault ELSE "none", FALSE,
                    children, persisted,
                    <<"Get AiGateway", "List AiGatewayClass">>)
    ELSE
    LET calls0 == <<"Get AiGateway", "List AiGatewayClass">>
        conds0 == persisted.conditions
        gen == generateAiGatewayConfig(aiGateway, fault = "marshal")
        rc == reconcileConfigMap(aiGateway, gen.configData, children.cm, fault)
        rd == reconcileDeployment(aiGateway, gen.configHash, order, children.dep, fault)
        rs == reconcileService(aiGateway, children.svc, fault)
    IN IF gen.err # Nil
       THEN FinishPass("configFailed", fault, children, persisted,
                updateCondition(
                    updateCondition(conds0, AiGatewayConfigured, ConditionFalse,
                        "ConfigGenerationFailed", "Failed to generate config: " \o gen.err),
                    AiGatewayReady, ConditionFalse, "ConfigGenerationFailed",
                    "AiGateway not ready due to config generation failure"),
                statusFails, calls0)
       ELSE IF rc.err # Nil
       THEN FinishPass("configMapFailed", fault, Children(rc.obj, children.dep, children.svc), persisted,
                updateCondition(conds0, AiGatewayConfigured, ConditionFalse,
                    "ConfigMapFailed", "Failed to create/update ConfigMap: " \o rc.err),
                statusFails, calls0 \o rc.calls)
       ELSE IF rd.err # Nil
       THEN FinishPass("deploymentFailed", fault, Children(rc.obj, rd.obj, children.svc), persisted,
                updateCondition(conds0, AiGatewayReady, ConditionFalse,
                    "DeploymentFailed", "Failed to create/update Deployment: " \o rd.err),
                statusFails, calls0 \o rc.calls \o rd.calls)
       ELSE IF rs.err # Nil
       THEN FinishPass("serviceFailed", fault, Children(rc.obj, rd.obj, rs.obj), persisted,
                updateCondition(conds0, AiGatewayReady, ConditionFalse,
                    "ServiceFailed", "Failed to create/update Service: " \o rs.err),
                statusFails, calls0 \o rc.calls \o rd.calls \o rs.calls)
       ELSE FinishPass("ok", "none", Children(rc.obj, rd.obj, rs.obj), persisted,
                updateCondition(
                    updateCondition(conds0, AiGatewayConfigured, ConditionTrue,
                        ReasonConfigurationApplied, "AiGateway configuration successfully applied"),
                    AiGatewayReady, ConditionTrue, ReasonAiGatewayReady,
                    "AiGateway is ready and serving traffic"),
                statusFails, calls0 \o rc.calls \o rd.calls \o rs.calls)

\* One pass of the AiGateway reconciler on the stored objects.
Pass(fault, statusFails) ==
    \E order \in SeqsOver(ApiKeyEnvVars(gwSpec)) :
    \E r \in {ReconcileResult(gwExists, gwSpec, gwStatus, classes,
                              Children(cm, dep, svc), fault, statusFails, order)} :
    LET failed == r.hit # "none" \/ r.statusWrite = "failed"
    IN /\ failed => events < MaxEvents
       /\ events' = IF failed THEN events + 1 ELSE events
       /\ cm' = r.children.cm
       /\ dep' = r.children.dep
       /\ svc' = r.children.svc
       /\ gwStatus' = r.status
       /\ sync' = IF r.outcome = "ok" THEN "clean" ELSE "none"
       /\ last' = [ran |-> TRUE, prior |-> sync, hit |-> r.hit, outcome |-> r.outcome,
                   result |-> r.result,
                   err |-> r.err, statusWrite |-> r.statusWrite, calls |-> r.calls]
       /\ UNCHANGED <<gwExists, gwSpec, classes, mrVars, call>>

Reconcile == \E fault \in Faults, statusFails \in BOOLEAN : Pass(fault, statusFails)

\* a pass in which no API call fails
CleanPass == Pass("none", FALSE)

----------------------------------------------------------------------------
(* Users and other actors *)

InitialSpec ==
    [aiGatewayClassName |-> "litellm", port |-> 8000,
     aiModels |-> <<[name |-> "gpt-4", provider |-> "openai"]>>,
     env |-> <<>>, envFrom |-> <<>>]

\* the status of a gateway no pass has written: no condition, no config hash,
\* no time of last update
NoStatus == [conditions |-> <<>>, configHash |-> EmptyText, lastUpdated |-> Nil]

Stored(kind) == IF kind = "ConfigMap" THEN cm ELSE IF kind = "Deployment" THEN dep ELSE svc

\* the step was taken by somebody else than the reconciler
ActorStep(newSync) ==
    /\ events < MaxEvents
    /\ events' = events + 1
    /\ last' = NoPass
    /\ sync' = newSync
    /\ call' = call

SetChild(kind, obj) ==
    /\ cm' = IF kind = "ConfigMap" THEN obj ELSE cm
    /\ dep' = IF kind = "Deployment" THEN obj ELSE dep
    /\ svc' = IF kind = "Service" THEN obj ELSE svc

ChildKinds == {"ConfigMap", "Deployment", "Service"}

\* new holds the elements of old in another order
Reordered(old, new) ==
    /\ old # new
    /\ Len(old) = Len(new)
    /\ \E p \in [DOMAIN old -> DOMAIN old] :
          /\ \A i, j \in DOMAIN old : p[i] = p[j] => i = j
          /\ new = [i \in DOMAIN old |-> old[p[i]]]

\* the user edits one field of the gateway spec
UserEditsSpec ==
    /\ gwExists
    /\ \/ \E v \in ClassNames \ {gwSpec.aiGatewayClassName} :
             gwSpec' = [gwSpec EXCEPT !.aiGatewayClassName = v]
       \/ \E v \in Ports \ {gwSpec.port} : gwSpec' = [gwSpec EXCEPT !.port = v]
       \/ \E v \in AiModelLists \ {gwSpec.aiModels} : gwSpec' = [gwSpec EXCEPT !.aiModels = v]
       \/ \E v \in EnvLists \ {gwSpec.env} : gwSpec' = [gwSpec EXCEPT !.env = v]
       \/ \E v \in EnvFromLists \ {gwSpec.envFrom} : gwSpec' = [gwSpec EXCEPT !.envFrom = v]
    /\ ActorStep(IF sync = "clean" /\ Reordered(gwSpec.aiModels, gwSpec'.aiModels)
                 THEN "reordered" ELSE "none")
    /\ UNCHANGED <<gwExists, gwStatus, classes, mrVars, cm, dep, svc>>

\* the user deletes the gateway; the garbage collector removes the children it owns
UserDeletesGateway ==
    /\ gwExists
    /\ gwExists' = FALSE
    /\ gwStatus' = NoStatus
    /\ cm' = IF cm # NotFound /\ cm.ownerReferences # <<>> THEN NotFound ELSE cm
    /\ dep' = IF dep # NotFound /\ dep.ownerReferences # <<>> THEN NotFound ELSE dep
    /\ svc' = IF svc # NotFound /\ svc.ownerReferences # <<>> THEN NotFound ELSE svc
    /\ ActorStep("none")
    /\ UNCHANGED <<gwSpec, classes, mrVars>>

\* the user applies the gateway again
UserCreatesGateway ==
    /\ ~gwExists
    /\ gwExists' = TRUE
    /\ gwStatus' = NoStatus
    /\ ActorStep("none")
    /\ UNCHANGED <<gwSpec, classes, mrVars, cm, dep, svc>>

AdminSetsClasses ==
    \E cs \in ClassSets :
        /\ cs # classes
        /\ classes' = cs
        /\ ActorStep(sync)
        /\ UNCHANGED <<gwExists, gwSpec, gwStatus, mrVars, cm, dep, svc>>

\* another controller or a user labels a child with a key of its own
OtherActorAddsLabel ==
    \E kind \in ChildKinds, key \in ForeignLabelKeys :
        /\ Stored(kind) # NotFound
        /\ key \notin DOMAIN Stored(kind).labels
        /\ SetChild(kind, [Stored(kind) EXCEPT !.labels = MapMerge(@, key :> "blue")])
        /\ ActorStep(IF sync \in {"clean", "labelled"} THEN "labelled" ELSE "none")
        /\ UNCHANGED <<gwVars, mrVars>>

OtherActorDeletesChild ==
    \E kind \in ChildKinds :
        /\ Stored(kind) # NotFound
        /\ SetChild(kind, NotFound)
        /\ ActorStep("none")
        /\ UNCHANGED <<gwVars, mrVars>>

\* objects that somebody else stored under the names the reconciler uses
ForeignObject(kind) ==
    IF kind = "ConfigMap"
    THEN [labels |-> NoLabels, data |-> ("config.yaml" :> [raw |-> "foreign"]), ownerReferences |-> <<>>]
    ELSE IF kind = "Deployment"
    THEN [labels |-> NoLabels, ownerReferences |-> <<>>, replicas |-> 2,
          selector |-> ("app" :> "foreign"),
          templateLabels |-> ("app" :> "foreign") @@ ("tier" :> "web"),
          templateAnnotations |-> ("note" :> [raw |-> "kept"]),
          podSpec |-> [containers |-> <<[name |-> "web", image |-> "nginx",
                                         ports |-> <<>>, volumeMounts |-> <<>>, command |-> <<>>,
                                         env |-> <<>>, envFrom |-> <<>>]>>,
                       volumes |-> <<>>]]
    ELSE [labels |-> NoLabels, ownerReferences |-> <<>>, selector |-> ("app" :> "foreign"),
          ports |-> <<[name |-> "web", port |-> 80, targetPort |-> 80, protocol |-> "TCP"]>>,
          type |-> "NodePort"]

OtherActorCreatesChild ==
    \E kind \in ChildKinds :
        /\ Stored(kind) = NotFound
        /\ SetChild(kind, ForeignObject(kind))
        /\ ActorStep("none")
        /\ UNCHANGED <<gwVars, mrVars>>

----------------------------------------------------------------------------
(* ModelRouterReconciler: configuration generator (modelrouter_generators.go) *)
(* A model name is the sequence of its pieces, "/" being a piece of its own.  *)

MrName == "router"
MrKind == "ModelRouter"
TypeLitellm == "litellm"
ModelRouterConfigured == "ModelRouterConfigured"
ModelRouterReady == "ModelRouterReady"
ReasonConfigurationValid == "ConfigurationValid"
ReasonConfigurationInvalid == "ConfigurationInvalid"
ReasonModelRouterReady == "ModelRouterReady"

RECURSIVE Join(_)
\* the string spelled by a sequence of pieces
Join(pieces) == IF pieces = <<>> THEN "" ELSE Head(pieces) \o Join(Tail(pieces))

\* the position of the last "/" instead of the first
LastSlashIndex(modelName) ==
    IF \E i \in DOMAIN modelName : modelName[i] = "/"
    THEN CHOOSE i \in DOMAIN modelName :
            /\ modelName[i] = "/"
            /\ \A j \in (i + 1)..Len(modelName) : modelName[j] # "/"
    ELSE 0

\* strings.Index(modelName, "/"), counted in pieces from 1; 0 when there is none
SlashIndex(modelName) ==
    IF \E i \in DOMAIN modelName : modelName[i] = "/"
    THEN CHOOSE i \in DOMAIN modelName :
            /\ modelName[i] = "/"
            /\ \A j \in 1..(i - 1) : modelName[j] # "/"
    ELSE 0

NewModelRouterGenerator(provider) ==
    IF provider \in {"litellm", ""}
    THEN [generator |-> "LiteLLMGenerator", err |-> Nil]
    ELSE [generator |-> Nil,
          err |-> "unsupported model router provider '" \o provider
                    \o "': only 'litellm' is currently supported"]

\* LiteLLMGenerator.Validate: the error, Nil when the spec is valid
Validate(modelRouter) ==
    IF modelRouter.type = ""
    THEN "modelRouter type is required"
    ELSE IF modelRouter.type # "litellm"
    THEN "unsupported modelRouter type: " \o modelRouter.type \o ", only 'litellm' is supported"
    ELSE IF modelRouter.port <= 0
    THEN "modelRouter port must be positive, got: " \o Itoa(modelRouter.port)
    ELSE IF Len(modelRouter.aiModels) = 0
    THEN "no AI models specified in ModelRouter"
    ELSE IF \E i \in DOMAIN modelRouter.aiModels : modelRouter.aiModels[i].name = <<>>
    THEN "AI model name cannot be empty"
    ELSE Nil

mapModelToLiteLLMFormat(modelName) ==
    LET providerEnd == IF SlashIndex(modelName) # 0 THEN SlashIndex(modelName) - 1 ELSE Len(modelName)
        provider == ToLower(Join(SubSeq(modelName, 1, providerEnd)))
        apiKeyEnvVar ==
            IF Len(modelName) = 0 THEN ""
            ELSE CASE provider = "openai" -> "OPENAI_API_KEY"
                   [] provider = "azure" -> "AZURE_API_KEY"
                   [] provider = "gemini" -> "GEMINI_API_KEY"
                   [] provider = "anthropic" -> "ANTHROPIC_API_KEY"
                   [] provider = "bedrock" -> "AWS_ACCESS_KEY_ID"
                   [] provider = "ollama" -> ""
                   [] provider = "huggingface" -> "HUGGINGFACE_API_KEY"
                   [] OTHER -> ToUpper(provider) \o "_API_KEY"
    IN [litellmModel |-> modelName, apiKeyEnvVar |-> apiKeyEnvVar]

\* LiteLLMGenerator.Generate; an api_key of "" is left out of the YAML text (omitempty)
Generate(modelRouter, marshalFails) ==
    LET modelList == [i \in DOMAIN modelRouter.aiModels |->
                        LET m == mapModelToLiteLLMFormat(modelRouter.aiModels[i].name)
                        IN [model_name |-> modelRouter.aiModels[i].name,
                            litellm_params |->
                               [model |-> m.litellmModel,
                                api_key |-> IF m.apiKeyEnvVar # ""
                                            THEN "os.environ/" \o m.apiKeyEnvVar ELSE ""]]]
        config == [model_list |-> modelList,
                   litellm_settings |-> [request_timeout |-> 600]]
    IN IF marshalFails
       THEN [configData |-> EmptyText, configHash |-> EmptyText, err |-> "failed to marshal LiteLLM config"]
       ELSE [configData |-> config, configHash |-> Sha256Hex16(config), err |-> Nil]

\* a validation that accepts every spec
validateNothing(modelRouter) == Nil

validateModelRouterConfig(modelRouter) ==
    IF NewModelRouterGenerator(modelRouter.type).err # Nil
    THEN NewModelRouterGenerator(modelRouter.type).err
    ELSE Validate(modelRouter)

generateModelRouterConfig(modelRouter, marshalFails) ==
    IF NewModelRouterGenerator(modelRouter.type).err # Nil
    THEN [configData |-> EmptyText, configHash |-> EmptyText,
          err |-> NewModelRouterGenerator(modelRouter.type).err]
    ELSE Generate(modelRouter, marshalFails)

shouldProcessModelRouter(modelRouter) == modelRouter.type = TypeLitellm

----------------------------------------------------------------------------
(* ModelRouterReconciler (unnamed/part_002) *)

\* a comparison that takes a nil map for an empty one (cmpopts.EquateEmpty)
LabelsEqualEquateEmpty(existing, desired) == existing.entries = desired.entries

\* equality.LabelsEqual: cmp.Equal on the two maps, which tells a nil map from
\* an empty one
LabelsEqual(existing, desired) ==
    existing.isNil = desired.isNil /\ existing.entries = desired.entries

MR_ApiKeyEnvVars(modelRouter) ==
    IF NewModelRouterGenerator(modelRouter.type).err # Nil THEN {}
    ELSE { mapModelToLiteLLMFormat(modelRouter.aiModels[i].name).apiKeyEnvVar :
             i \in DOMAIN modelRouter.aiModels } \ {""}

\* order: the order in which the range over the apiKeyEnvVars map yields its keys
MR_buildEnvironmentVariables(modelRouter, order) ==
    <<[name |-> "LITELLM_LOG", value |-> "INFO", valueFrom |-> NoSource]>>
        \o [i \in DOMAIN order |-> SecretEnvVar(order[i])]

MR_reconcileConfigMap(modelRouter, configData, configHash, existing, fault) ==
    LET configMap == [labels |-> ("app" :> MrName @@ "type" :> "litellm"
                                    @@ ConfigHashAnnotation :> configHash),
                      data |-> ("config.yaml" :> configData),
                      ownerReferences |-> <<ControllerRef(MrKind, MrName)>>]
    IN IF fault = "getConfigMap"
       THEN StepResult(existing, "failed to get ConfigMap", <<"Get ConfigMap">>)
       ELSE IF existing = NotFound
       THEN IF fault = "writeConfigMap"
            THEN StepResult(existing, "create failed", <<"Get ConfigMap", "Create ConfigMap">>)
            ELSE StepResult(configMap, Nil, <<"Get ConfigMap", "Create ConfigMap">>)
       ELSE LET needsUpdate ==
                    \/ TextGet(existing.data, "config.yaml") # configData
                    \/ ~LabelsEqual(DecodedMap(existing.labels), GoMap(configMap.labels))
                updated == [existing EXCEPT !.data = configMap.data, !.labels = configMap.labels]
            IN IF ~needsUpdate
               THEN StepResult(existing, Nil, <<"Get ConfigMap">>)
               ELSE IF fault = "writeConfigMap"
               THEN StepResult(existing, "update failed", <<"Get ConfigMap", "Update ConfigMap">>)
               ELSE StepResult(updated, Nil, <<"Get ConfigMap", "Update ConfigMap">>)

MR_PodSpec(modelRouter, order) ==
    [containers |-> <<[name |-> "litellm",
                       image |-> LiteLLMImage,
                       ports |-> <<[name |-> "http", containerPort |-> modelRouter.port, protocol |-> "TCP"]>>,
                       volumeMounts |-> <<[name |-> "config", mountPath |-> "/app/config", readOnly |-> TRUE]>>,
                       command |-> <<"litellm", "--config", "/app/config/config.yaml",
                                     "--port", Itoa(modelRouter.port)>>,
                       env |-> MR_buildEnvironmentVariables(modelRouter, order),
                       envFrom |-> <<>>]>>,
     volumes |-> <<[name |-> "config", configMap |-> MrName \o "-config"]>>]

MR_reconcileDeployment(modelRouter, configHash, order, existing, fault) ==
    LET labels == ("app" :> MrName @@ "type" :> "litellm" @@ ConfigHashAnnotation :> configHash)
        deployment == [labels |-> labels,
                       ownerReferences |-> <<ControllerRef(MrKind, MrName)>>,
                       replicas |-> 1,
                       selector |-> ("app" :> MrName),
                       templateLabels |-> labels,
                       templateAnnotations |-> NoLabels,
                       podSpec |-> MR_PodSpec(modelRouter, order)]
    IN IF fault = "getDeployment"
       THEN StepResult(existing, "failed to get Deployment", <<"Get Deployment">>)
       ELSE IF existing = NotFound
       THEN IF fault = "writeDeployment"
            THEN StepResult(existing, "create failed", <<"Get Deployment", "Create Deployment">>)
            ELSE StepResult(deployment, Nil, <<"Get Deployment", "Create Deployment">>)
       ELSE LET existingContainers == existing.podSpec.containers
                newContainers == deployment.podSpec.containers
                existingPorts == existingContainers[1].ports
                newPorts == newContainers[1].ports
                needsUpdate ==
                    \/ ~LabelsEqual(DecodedMap(existing.labels), GoMap(deployment.labels))
                    \/ ~LabelsEqual(DecodedMap(existing.templateLabels),
                                   GoMap(deployment.templateLabels))
                    \/ /\ Len(existingContainers) > 0
                       /\ Len(newContainers) > 0
                       /\ \/ ~EnvVarsEqual(Decoded(existingContainers[1].env),
                                          Slice(newContainers[1].env))
                          \/ existingContainers[1].image # newContainers[1].image
                          \/ Len(existingPorts) # Len(newPorts)
                          \/ /\ Len(existingPorts) > 0
                             /\ Len(newPorts) > 0
                             /\ existingPorts[1].containerPort # newPorts[1].containerPort
                updated == [existing EXCEPT
                              !.labels = deployment.labels,
                              !.replicas = deployment.replicas,
                              !.selector = deployment.selector,
                              !.templateLabels = deployment.templateLabels,
                              !.templateAnnotations = deployment.templateAnnotations,
                              !.podSpec = deployment.podSpec]
            IN IF ~needsUpdate
               THEN StepResult(existing, Nil, <<"Get Deployment">>)
               ELSE IF fault = "writeDeployment"
               THEN StepResult(existing, "update failed", <<"Get Deployment", "Update Deployment">>)
               ELSE StepResult(updated, Nil, <<"Get Deployment", "Update Deployment">>)

MR_reconcileService(modelRouter, existing, fault) ==
    LET labels == ("app" :> MrName @@ "type" :> "litellm")
        service == [labels |-> labels,
                    ownerReferences |-> <<ControllerRef(MrKind, MrName)>>,
                    selector |-> ("app" :> MrName),
                    ports |-> <<[name |-> "http", port |-> modelRouter.port,
                                 targetPort |-> modelRouter.port, protocol |-> "TCP"]>>,
                    type |-> "ClusterIP"]
    IN IF fault = "getService"
       THEN StepResult(existing, "failed to get Service", <<"Get Service">>)
       ELSE IF existing = NotFound
       THEN IF fault = "writeService"
            THEN StepResult(existing, "create failed", <<"Get Service", "Create Service">>)
            ELSE StepResult(service, Nil, <<"Get Service", "Create Service">>)
       ELSE LET needsUpdate ==
                    \/ ~LabelsEqual(DecodedMap(existing.labels), GoMap(service.labels))
                    \/ /\ Len(existing.ports) > 0
                       /\ Len(service.ports) > 0
                       /\ existing.ports[1].port # service.ports[1].port
                updated == [existing EXCEPT !.ports = service.ports, !.labels = service.labels]
            IN IF ~needsUpdate
               THEN StepResult(existing, Nil, <<"Get Service">>)
               ELSE IF fault = "writeService"
               THEN StepResult(existing, "update failed", <<"Get Service", "Update Service">>)
               ELSE StepResult(updated, Nil, <<"Get Service", "Update Service">>)

\* ModelRouterReconciler.updateStatus: the whole local status is written
MR_updateStatus(persisted, local, statusFails) ==
    IF statusFails
    THEN [status |-> persisted, err |-> "status update failed"]
    ELSE [status |-> local, err |-> Nil]

MR_FinishPass(outcome, hit, children, persisted, local, statusFails, calls) ==
    LET w == MR_updateStatus(persisted, local, statusFails)
    IN [outcome |-> outcome, hit |-> hit, result |-> EmptyResult, err |-> (w.err # Nil), children |-> children,
        status |-> w.status,
        statusWrite |-> IF w.err # Nil THEN "failed" ELSE "ok",
        calls |-> Append(calls, "UpdateStatus ModelRouter")]

MR_ReconcileResult(found, modelRouter, persisted, children, fault, statusFails, order) ==
    IF fault = "getModelRouter"
    THEN ReturnPass("getFailed", fault, TRUE, children, persisted, <<"Get ModelRouter">>)
    ELSE IF ~found
    THEN ReturnPass("notFound", "none", FALSE, children, persisted, <<"Get ModelRouter">>)
    ELSE IF ~shouldProcessModelRouter(modelRouter)
    THEN ReturnPass("notResponsible", "none", FALSE, children, persisted, <<"Get ModelRouter">>)
    ELSE
    LET calls0 == <<"Get ModelRouter">>
        conds0 == persisted.conditions
        verr == validateModelRouterConfig(modelRouter)
        conds1 == updateCondition(conds0, ModelRouterConfigured, ConditionTrue,
                      ReasonConfigurationValid, "ModelRouter configuration validation passed")
        gen == generateModelRouterConfig(modelRouter, fault = "marshal")
        rc == MR_reconcileConfigMap(modelRouter, gen.configData, gen.configHash, children.cm, fault)
        rd == MR_reconcileDeployment(modelRouter, gen.configHash, order, children.dep, fault)
        rs == MR_reconcileService(modelRouter, children.svc, fault)
        WithConditions(conds) == [persisted EXCEPT !.conditions = conds]
    IN IF verr # Nil
       THEN MR_FinishPass("invalid", "none", children, persisted,
                WithConditions(updateCondition(
                    updateCondition(conds0, ModelRouterConfigured, ConditionFalse,
                        ReasonConfigurationInvalid,
                        "ModelRouter configuration validation failed: " \o verr),
                    ModelRouterReady, ConditionFalse, ReasonConfigurationInvalid,
                    "ModelRouter not ready due to invalid configuration")),
                statusFails, calls0)
       ELSE IF gen.err # Nil
       THEN MR_FinishPass("configFailed", fault, children, persisted,
                WithConditions(updateCondition(
                    updateCondition(conds1, ModelRouterConfigured, ConditionFalse,
                        "ConfigGenerationFailed", "Failed to generate config: " \o gen.err),
                    ModelRouterReady, ConditionFalse, "ConfigGenerationFailed",
                    "ModelRouter not ready due to config generation failure")),
                statusFails, calls0)
       ELSE IF rc.err # Nil
       THEN MR_FinishPass("configMapFailed", fault, Children(rc.obj, children.dep, children.svc),
                persisted,
                WithConditions(updateCondition(conds1, ModelRouterConfigured, ConditionFalse,
                    "ConfigMapFailed", "Failed to create/update ConfigMap: " \o rc.err)),
                statusFails, calls0 \o rc.calls)
       ELSE IF rd.err # Nil
       THEN MR_FinishPass("deploymentFailed", fault, Children(rc.obj, rd.obj, children.svc),
                persisted,
                WithConditions(updateCondition(conds1, ModelRouterReady, ConditionFalse,
                    "DeploymentFailed", "Failed to create/update Deployment: " \o rd.err)),
                statusFails, calls0 \o rc.calls \o rd.calls)
       ELSE IF rs.err # Nil
       THEN MR_FinishPass("serviceFailed", fault, Children(rc.obj, rd.obj, rs.obj),
                persisted,
                WithConditions(updateCondition(conds1, ModelRouterReady, ConditionFalse,
                    "ServiceFailed", "Failed to create/update Service: " \o rs.err)),
                statusFails, calls0 \o rc.calls \o rd.calls \o rs.calls)
       ELSE MR_FinishPass("ok", "none", Children(rc.obj, rd.obj, rs.obj), persisted,
                [conditions |->
                    updateCondition(
                        updateCondition(conds1, ModelRouterConfigured, ConditionTrue,
                            ReasonConfigurationApplied,
                            "ModelRouter configuration successfully applied"),
                        ModelRouterReady, ConditionTrue, ReasonModelRouterReady,
                        "ModelRouter is ready and serving traffic"),
                 configHash |-> gen.configHash,
                 lastUpdated |-> "now"],
                statusFails, calls0 \o rc.calls \o rd.calls \o rs.calls)

MrFaults == {"none", "getModelRouter", "marshal",
             "getConfigMap", "writeConfigMap", "getDeployment", "writeDeployment",
             "getService", "writeService"}

\* One pass of the ModelRouter reconciler on the stored objects.
MR_Reconcile ==
    \E fault \in MrFaults, statusFails \in BOOLEAN, order \in SeqsOver(MR_ApiKeyEnvVars(mrSpec)) :
    \E r \in {MR_ReconcileResult(mrExists, mrSpec, mrStatus,
                                 Children(cm, dep, svc), fault, statusFails, order)} :
    LET failed == r.hit # "none" \/ r.statusWrite = "failed"
    IN /\ failed => events < MaxEvents
       /\ events' = IF failed THEN events + 1 ELSE events
       /\ cm' = r.children.cm
       /\ dep' = r.children.dep
       /\ svc' = r.children.svc
       /\ mrStatus' = r.status
       /\ sync' = IF r.outcome = "ok" THEN "clean" ELSE "none"
       /\ last' = [ran |-> TRUE, prior |-> sync, hit |-> r.hit, outcome |-> r.outcome,
                   err |-> r.err, statusWrite |-> r.statusWrite, calls |-> r.calls]
       /\ UNCHANGED <<gwVars, mrExists, mrSpec, call>>

MrTypes == {"litellm", "", "other"}

MrPorts == {4000, 0, -1}

MrModelLists == {
    <<>>,
    <<[name |-> <<"openai", "/", "gpt-4">>]>>,
    <<[name |-> <<"Ollama", "/", "llama2">>], [name |-> <<"openai", "/", "gpt-4">>]>>,
    <<[name |-> <<"openai", "/", "gpt-4">>], [name |-> <<>>]>>,
    <<[name |-> <<"custom", "/", "m">>], [name |-> <<"gpt-4">>]>> }

InitialRouterSpec ==
    [type |-> "litellm", port |-> 4000, aiModels |-> <<[name |-> <<"openai", "/", "gpt-4">>]>>]

NoRouterStatus == [conditions |-> <<>>, configHash |-> EmptyText, lastUpdated |-> Nil]


\* ModelRouterCustomDefaulter.Default: the object as the mutating webhook
\* hands it on; the body logs and sets no field
Default(modelrouter) == modelrouter

\* ModelRouterCustomValidator.ValidateCreate: the error, Nil when the object is admitted
ValidateCreate(obj) == Nil

\* ModelRouterCustomValidator.ValidateUpdate
ValidateUpdate(oldObj, newObj) == Nil

\* admission of a create or update request: the defaulter, then the validator;
\* the object is stored when the validator returns no error
Admitted(isCreate, oldObj, submitted) ==
    IF isCreate THEN ValidateCreate(Default(submitted)) = Nil
    ELSE ValidateUpdate(oldObj, Default(submitted)) = Nil

\* the user edits one field of the ModelRouter spec
UserEditsRouter ==
    /\ mrExists
    /\ \E submitted \in
            { [mrSpec EXCEPT !.type = v] : v \in MrTypes \ {mrSpec.type} }
            \cup { [mrSpec EXCEPT !.port = v] : v \in MrPorts \ {mrSpec.port} }
            \cup { [mrSpec EXCEPT !.aiModels = v] : v \in MrModelLists \ {mrSpec.aiModels} } :
          /\ Admitted(FALSE, mrSpec, submitted)
          /\ mrSpec' = Default(submitted)
    /\ ActorStep("none")
    /\ UNCHANGED <<gwVars, mrExists, mrStatus, cm, dep, svc>>

\* the user deletes the ModelRouter; the garbage collector removes the children it owns
UserDeletesRouter ==
    /\ mrExists
    /\ mrExists' = FALSE
    /\ mrStatus' = NoRouterStatus
    /\ cm' = IF cm # NotFound /\ cm.ownerReferences # <<>> THEN NotFound ELSE cm
    /\ dep' = IF dep # NotFound /\ dep.ownerReferences # <<>> THEN NotFound ELSE dep
    /\ svc' = IF svc # NotFound /\ svc.ownerReferences # <<>> THEN NotFound ELSE svc
    /\ ActorStep("none")
    /\ UNCHANGED <<gwVars, mrSpec>>

\* the user applies the ModelRouter again
UserCreatesRouter ==
    /\ ~mrExists
    /\ Admitted(TRUE, mrSpec, mrSpec)
    /\ mrExists' = TRUE
    /\ mrSpec' = Default(mrSpec)
    /\ mrStatus' = NoRouterStatus
    /\ ActorStep("none")
    /\ UNCHANGED <<gwVars, cm, dep, svc>>

----------------------------------------------------------------------------
(* Specification of the AiGateway reconciler *)

Init ==
    /\ gwExists = TRUE
    /\ gwSpec = InitialSpec
    /\ gwStatus = NoStatus
    /\ classes = {LitellmClass(TRUE), OtherClass}
    /\ mrExists = TRUE
    /\ mrSpec = InitialRouterSpec
    /\ mrStatus = NoRouterStatus
    /\ call = NoCall
    /\ cm = NotFound
    /\ dep = NotFound
    /\ svc = NotFound
    /\ last = NoPass
    /\ sync = "none"
    /\ events = 0

Next ==
    \/ Reconcile
    \/ UserEditsSpec
    \/ UserDeletesGateway
    \/ UserCreatesGateway
    \/ AdminSetsClasses
    \/ OtherActorAddsLabel
    \/ OtherActorDeletesChild
    \/ OtherActorCreatesChild

Spec == Init /\ [][Next]_vars

\* The manager keeps triggering passes (changes of the gateway and of the owned
\* children, periodic resync) and API failures are transient: when a pass
\* without failure would change something, one is eventually run.
FairSpec == Init /\ [][Next]_vars /\ WF_vars(CleanPass)

----------------------------------------------------------------------------
(* A pass of the AiGateway reconciler in two steps: up to the Get of one    *)
(* child, and from the write that follows to the return.  Another actor may *)
(* label that child in between.                                             *)

\* an API server that accepts every write
WriteAlwaysAccepted(read, readVersion, stored, storedVersion) == FALSE

\* r.Create is rejected when an object of that name is stored; r.Update sends
\* the object as it was read and is rejected when the object is gone or when
\* its metadata.resourceVersion is no longer the one that was read
WriteRejected(read, readVersion, stored, storedVersion) ==
    IF read = NotFound
    THEN stored # NotFound
    ELSE stored = NotFound \/ storedVersion # readVersion

\* the pass runs until the Get of the child of the given kind has returned:
\* the steps of the children before it are complete
PassReachesWrite(kind) ==
    /\ call = NoCall
    /\ gwExists
    /\ shouldProcessAiGateway(gwSpec, classes, FALSE)
    /\ \E order \in SeqsOver(ApiKeyEnvVars(gwSpec)) :
          LET gen == generateAiGatewayConfig(gwSpec, FALSE)
              rc == reconcileConfigMap(gwSpec, gen.configData, cm, "none")
              rd == reconcileDeployment(gwSpec, gen.configHash, order, dep, "none")
          IN /\ cm' = IF kind = "ConfigMap" THEN cm ELSE rc.obj
             /\ dep' = IF kind = "Service" THEN rd.obj ELSE dep
             /\ svc' = svc
             /\ call' = [fn |-> "Reconcile", kind |-> kind, existing |-> Stored(kind),
                         order |-> order, resourceVersion |-> 1, storedVersion |-> 1,
                         added |-> {},
                         calls |-> <<"Get AiGateway", "List AiGatewayClass">>
                                     \o (IF kind = "ConfigMap" THEN <<>> ELSE rc.calls)
                                     \o (IF kind = "Service" THEN rd.calls ELSE <<>>)
                                     \o <<"Get " \o kind>>]
    /\ UNCHANGED <<gwVars, mrVars, last, sync, events>>

\* another actor labels the child while the pass holds the object it read
OtherActorAddsLabelInFlight ==
    /\ call.fn = "Reconcile"
    /\ events < MaxEvents
    /\ \E key \in ForeignLabelKeys :
          /\ Stored(call.kind) # NotFound
          /\ key \notin DOMAIN Stored(call.kind).labels
          /\ SetChild(call.kind, [Stored(call.kind) EXCEPT !.labels = MapMerge(@, key :> "blue")])
          /\ call' = [call EXCEPT !.storedVersion = @ + 1, !.added = @ \cup {key}]
    /\ events' = events + 1
    /\ UNCHANGED <<gwVars, mrVars, last, sync>>

\* the pass goes on from the object it read: the write of that child, the
\* steps of the children after it, the status write
PassCompletes ==
    /\ call.fn = "Reconcile"
    /\ \E kind \in {call.kind} :
       \E rejected \in {WriteRejected(call.existing, call.resourceVersion,
                                      Stored(kind), call.storedVersion)} :
       \E r \in {ReconcileResult(TRUE, gwSpec, gwStatus, classes,
                                 Children(IF kind = "ConfigMap" THEN call.existing ELSE cm,
                                          IF kind = "Deployment" THEN call.existing ELSE dep,
                                          IF kind = "Service" THEN call.existing ELSE svc),
                                 IF rejected THEN "write" \o kind ELSE "none",
                                 FALSE, call.order)} :
       LET written == /\ r.hit = "none"
                      /\ {"Create " \o kind, "Update " \o kind} \cap Range(r.calls) # {}
           after(k, obj) == IF k = kind /\ ~written THEN Stored(k) ELSE obj
           rest == SubSeq(r.calls, Len(call.calls) + 1, Len(r.calls))
       IN /\ cm' = after("ConfigMap", r.children.cm)
          /\ dep' = after("Deployment", r.children.dep)
          /\ svc' = after("Service", r.children.svc)
          /\ gwStatus' = r.status
          /\ sync' = "none"
          /\ last' = [ran |-> TRUE, prior |-> sync, hit |-> r.hit, outcome |-> r.outcome,
                      result |-> r.result, err |-> r.err, statusWrite |-> r.statusWrite,
                      calls |-> call.calls \o rest]
          /\ call' = [call EXCEPT !.fn = "Reconcile returned"]
    /\ UNCHANGED <<gwExists, gwSpec, classes, mrVars, events>>

NextInFlight ==
    \/ call = NoCall /\ CleanPass
    \/ call = NoCall /\ UserEditsSpec
    \/ call = NoCall /\ OtherActorAddsLabel
    \/ \E kind \in ChildKinds : PassReachesWrite(kind)
    \/ OtherActorAddsLabelInFlight
    \/ PassCompletes

SpecInFlight == Init /\ [][NextInFlight]_vars

----------------------------------------------------------------------------
(* Specification of the ModelRouter reconciler *)

NextModelRouter ==
    \/ MR_Reconcile
    \/ UserEditsRouter
    \/ UserDeletesRouter
    \/ UserCreatesRouter
    \/ OtherActorAddsLabel
    \/ OtherActorDeletesChild
    \/ OtherActorCreatesChild

SpecModelRouter == Init /\ [][NextModelRouter]_vars

----------------------------------------------------------------------------
(* The functions of the packages, called on their own.  `call` records the  *)
(* arguments and the result of the most recent call.                        *)

RECURSIVE SeqsUpTo(_, _)
\* all sequences over S of length at most n
SeqsUpTo(S, n) ==
    IF n = 0 THEN { <<>> }
    ELSE SeqsUpTo(S, n - 1) \cup { Append(t, x) : t \in SeqsUpTo(S, n - 1), x \in S }

Providers == {"openai", "azure", "gemini", "anthropic", "bedrock", "huggingface",
              "ollama", "custom", "OpenAI"}

RendererModels ==
    { [name |-> "m", provider |-> p] : p \in Providers }
        \cup { [name |-> "gpt-4", provider |-> "openai"] }

RouterModelNames == {
    <<>>,
    <<"gpt-4">>,
    <<"/", "m">>,
    <<"openai", "/", "gpt-4">>,
    <<"OpenAI", "/", "gpt-4">>,
    <<"azure", "/", "gpt-4">>,
    <<"gemini", "/", "pro">>,
    <<"anthropic", "/", "claude">>,
    <<"bedrock", "/", "claude">>,
    <<"BEDROCK", "/", "claude">>,
    <<"huggingface", "/", "org", "/", "model">>,
    <<"ollama", "/", "llama2">>,
    <<"custom", "/", "m">> }

EqualityModels == { [name |-> "gpt-4", provider |-> "openai"],
                    [name |-> "gemini-1.5-pro", provider |-> "openai"],
                    [name |-> "gpt-4", provider |-> "azure"] }

EqualityEnvVars == { [name |-> "FOO", value |-> "bar", valueFrom |-> NoSource],
                     SecretEnvVar("FOO"),
                     [name |-> "LITELLM_LOG", value |-> "INFO", valueFrom |-> NoSource] }

\* every map from some of the keys to the values
LabelEntries ==
    UNION { [keys -> {"test", "other"}] : keys \in SUBSET {"app", "version"} }

\* nil, and every present map
LabelMaps == { NilMap } \cup { GoMap(entries) : entries \in LabelEntries }

\* nil, and every present slice of at most MaxLen elements
SlicesOver(S) == { NilSlice } \cup { Slice(t) : t \in SeqsUpTo(S, MaxLen) }

GatewayWith(models) == [InitialSpec EXCEPT !.aiModels = models]

RouterWith(names) ==
    [InitialRouterSpec EXCEPT !.aiModels = [i \in DOMAIN names |-> [name |-> names[i]]]]

\* the functions keep no state between calls: each behaviour makes one call
\* (every action below starts from call = NoCall)
PureStep(c) ==
    /\ call' = c
    /\ UNCHANGED <<gwVars, mrVars, cm, dep, svc, last, sync, events>>

CallGenerateAiGatewayConfig ==
    /\ call = NoCall
    /\ \E models \in SeqsUpTo(RendererModels, MaxLen), marshalFails \in BOOLEAN :
           PureStep([fn |-> "generateAiGatewayConfig", aiModels |-> models,
                     result |-> generateAiGatewayConfig(GatewayWith(models), marshalFails)])

CallBuildEnvironmentVariables ==
    /\ call = NoCall
    /\ \E models \in SeqsUpTo(RendererModels, MaxLen) :
       \E order \in SeqsOver(ApiKeyEnvVars(GatewayWith(models))) :
           PureStep([fn |-> "buildEnvironmentVariables", aiModels |-> models,
                     result |-> buildEnvironmentVariables(GatewayWith(models), order)])

CallRouterBuildEnvironmentVariables ==
    /\ call = NoCall
    /\ \E names \in SeqsUpTo(RouterModelNames, MaxLen) :
       \E order \in SeqsOver(MR_ApiKeyEnvVars(RouterWith(names))) :
           PureStep([fn |-> "MR_buildEnvironmentVariables", names |-> names,
                     result |-> MR_buildEnvironmentVariables(RouterWith(names), order)])

CallMapModelToLiteLLMFormat ==
    /\ call = NoCall
    /\ \E modelName \in RouterModelNames :
           PureStep([fn |-> "mapModelToLiteLLMFormat", modelName |-> modelName,
                     result |-> mapModelToLiteLLMFormat(modelName)])

CallAiModelsEqual ==
    /\ call = NoCall
    /\ \E a \in SlicesOver(EqualityModels), b \in SlicesOver(EqualityModels) :
           PureStep([fn |-> "AiModelsEqual", a |-> a, b |-> b, result |-> AiModelsEqual(a, b)])

CallEnvVarsEqual ==
    /\ call = NoCall
    /\ \E a \in SlicesOver(EqualityEnvVars), b \in SlicesOver(EqualityEnvVars) :
           PureStep([fn |-> "EnvVarsEqual", a |-> a, b |-> b, result |-> EnvVarsEqual(a, b)])

RepeatedRouterNames == { <<"openai", "/", "gpt-4">>, <<"ollama", "/", "llama2">> }

\* two calls of the renderer, on specs that may differ in the models and in the port
CallGenerateAiGatewayConfigTwice ==
    /\ call = NoCall
    /\ \E a \in SeqsUpTo(EqualityModels, MaxLen), b \in SeqsUpTo(EqualityModels, MaxLen) :
       \E port \in {8000, 8080}, aFails \in BOOLEAN, bFails \in BOOLEAN :
           LET first == GatewayWith(a)
               second == [GatewayWith(b) EXCEPT !.port = port]
           IN PureStep([fn |-> "generateAiGatewayConfig twice",
                        first |-> [spec |-> first, result |-> generateAiGatewayConfig(first, aFails)],
                        second |-> [spec |-> second,
                                    result |-> generateAiGatewayConfig(second, bFails)]])

CallGenerateTwice ==
    /\ call = NoCall
    /\ \E a \in SeqsUpTo(RepeatedRouterNames, MaxLen), b \in SeqsUpTo(RepeatedRouterNames, MaxLen) :
       \E port \in {4000, 0}, aFails \in BOOLEAN, bFails \in BOOLEAN :
           LET first == RouterWith(a)
               second == [RouterWith(b) EXCEPT !.port = port]
           IN PureStep([fn |-> "Generate twice",
                        first |-> [spec |-> first, result |-> Generate(first, aFails)],
                        second |-> [spec |-> second, result |-> Generate(second, bFails)]])

CallLabelsEqual ==
    /\ call = NoCall
    /\ \E a \in LabelMaps, b \in LabelMaps :
           PureStep([fn |-> "LabelsEqual", a |-> a, b |-> b, result |-> LabelsEqual(a, b)])

\* ranging over a nil map and looking a key up in it find no entry
CallRequiredLabelsPresent ==
    /\ call = NoCall
    /\ \E existing \in LabelMaps, required \in LabelMaps :
           PureStep([fn |-> "RequiredLabelsPresent", existing |-> existing, required |-> required,
                     result |-> RequiredLabelsPresent(existing.entries, required.entries)])

\* the types of the conditions a stored list may hold
ConditionTypes == {AiGatewayConfigured, AiGatewayReady, "Progressing"}

StoredConditions ==
    { Condition(t, s, "Earlier", "set earlier") :
        t \in ConditionTypes, s \in {ConditionTrue, ConditionFalse} }

NoDuplicateTypes(conditions) ==
    \A i, j \in DOMAIN conditions : conditions[i].type = conditions[j].type => i = j

\* the lists of at most MaxLen conditions in which no type occurs twice
ConditionLists == { l \in SeqsUpTo(StoredConditions, MaxLen) : NoDuplicateTypes(l) }

\* the type and status arguments of a call of updateCondition
ConditionUpdates ==
    { [type |-> t, status |-> s] :
        t \in {AiGatewayConfigured, AiGatewayReady}, s \in {ConditionTrue, ConditionFalse} }

RECURSIVE updateConditions(_, _)
\* the list after each call of a sequence of calls of updateCondition
updateConditions(conditions, updates) ==
    IF updates = <<>> THEN <<>>
    ELSE LET next == updateCondition(conditions, Head(updates).type, Head(updates).status,
                                     "Now", "set now")
         IN <<next>> \o updateConditions(next, Tail(updates))

CallUpdateCondition ==
    /\ call = NoCall
    /\ \E conditions \in ConditionLists, updates \in SeqsUpTo(ConditionUpdates, MaxLen) \ {<<>>} :
           PureStep([fn |-> "updateCondition", conditions |-> conditions, updates |-> updates,
                     lists |-> updateConditions(conditions, updates)])

NextPure ==
    \/ CallGenerateAiGatewayConfig
    \/ CallBuildEnvironmentVariables
    \/ CallRouterBuildEnvironmentVariables
    \/ CallMapModelToLiteLLMFormat
    \/ CallAiModelsEqual
    \/ CallEnvVarsEqual
    \/ CallLabelsEqual
    \/ CallRequiredLabelsPresent
    \/ CallGenerateAiGatewayConfigTwice
    \/ CallGenerateTwice
    \/ CallUpdateCondition

SpecPure == Init /\ [][NextPure]_vars

----------------------------------------------------------------------------
(* Properties.  `last` describes the pass that led to the current state;    *)
(* it is reset by every step of another actor, so a state with last.ran is  *)
(* the state right after a pass, and gwSpec, gwExists and classes in it are *)
(* the ones the pass read.                                                  *)

ChildWriteCalls == {"Create ConfigMap", "Update ConfigMap", "Create Deployment",
                    "Update Deployment", "Create Service", "Update Service"}

\* the condition of the given type, as a reader of the status finds it
FindCondition(conditions, conditionType) ==
    IF \E i \in DOMAIN conditions : conditions[i].type = conditionType
    THEN conditions[CHOOSE i \in DOMAIN conditions :
                       /\ conditions[i].type = conditionType
                       /\ \A j \in 1..(i - 1) : conditions[j].type # conditionType]
    ELSE [type |-> conditionType, status |-> "absent", reason |-> "", message |-> ""]

\* responsibility as the specification words it
Responsible(aiGateway, classList) ==
    \/ /\ aiGateway.aiGatewayClassName # ""
       /\ \E c \in classList : c.name = aiGateway.aiGatewayClassName /\ c.controller = ControllerName
    \/ /\ aiGateway.aiGatewayClassName = ""
       /\ \E c \in classList : /\ c.controller = ControllerName
                               /\ DefaultClassAnnotation \in DOMAIN c.annotations
                               /\ c.annotations[DefaultClassAnnotation] = "true"

\* a spec the specification calls valid
ValidGatewaySpec(aiGateway) ==
    /\ Len(aiGateway.aiModels) > 0
    /\ \A i \in DOMAIN aiGateway.aiModels : aiGateway.aiModels[i].name # ""
    /\ aiGateway.port > 0

\* C1: a pass that follows a pass which completed the three child steps, with
\* the spec unchanged and no change to the children in between, issues no
\* Create and no Update on the ConfigMap, the Deployment or the Service.
C1_SecondPassWritesNothing ==
    (last.ran /\ last.prior = "clean") => Range(last.calls) \cap ChildWriteCalls = {}

C1_Witness ==
    /\ last.ran
    /\ last.prior = "clean"
    /\ last.outcome = "ok"
    /\ Len(dep.podSpec.containers[1].env) = 3

\* C2: when another actor has added a label with a key other than app to a
\* child after a successful pass, the next pass with the spec unchanged issues
\* no Update on that child, and the label is still on it afterwards.
C2_ForeignLabelKept ==
    [][(last'.ran /\ sync = "labelled") =>
         \A kind \in ChildKinds, key \in ForeignLabelKeys :
            (Stored(kind) # NotFound /\ key \in DOMAIN Stored(kind).labels) =>
               /\ ("Update " \o kind) \notin Range(last'.calls)
               /\ Stored(kind)' # NotFound
               /\ key \in DOMAIN Stored(kind)'.labels
               /\ Stored(kind)'.labels[key] = Stored(kind).labels[key]]_vars

C2_Witness ==
    /\ last.ran
    /\ last.prior = "labelled"
    /\ last.outcome = "ok"
    /\ dep # NotFound
    /\ "team" \in DOMAIN dep.labels
    /\ "Get Deployment" \in Range(last.calls)

\* C3: for a gateway this controller is responsible for, with a valid spec, no
\* children stored and no failing API call, a pass creates the ConfigMap with
\* the rendered config under config.yaml, the Deployment and the Service,
\* persists Configured and Ready with status True and returns no error.
C3_FirstPassCreatesAll ==
    [][(/\ last'.ran
        /\ last'.hit = "none"
        /\ last'.statusWrite # "failed"
        /\ gwExists
        /\ Responsible(gwSpec, classes)
        /\ ValidGatewaySpec(gwSpec)
        /\ cm = NotFound /\ dep = NotFound /\ svc = NotFound)
       => /\ {"Create ConfigMap", "Create Deployment", "Create Service"} \subseteq Range(last'.calls)
          /\ cm' # NotFound
          /\ DOMAIN cm'.data = {"config.yaml"}
          /\ cm'.data["config.yaml"] = generateAiGatewayConfig(gwSpec, FALSE).configData
          /\ Len(cm'.data["config.yaml"].model_list) = Len(gwSpec.aiModels)
          /\ dep' # NotFound
          /\ dep'.podSpec.containers[1].ports[1].containerPort = gwSpec.port
          /\ dep'.podSpec.volumes[1].configMap = GwName \o "-config"
          /\ svc' # NotFound
          /\ svc'.ports[1].port = gwSpec.port
          /\ FindCondition(gwStatus'.conditions, AiGatewayConfigured).status = ConditionTrue
          /\ FindCondition(gwStatus'.conditions, AiGatewayReady).status = ConditionTrue
          /\ ~last'.err]_vars

C3_Witness ==
    /\ last.ran
    /\ last.outcome = "ok"
    /\ last.statusWrite = "ok"
    /\ {"Create ConfigMap", "Create Deployment", "Create Service"} \subseteq Range(last.calls)
    /\ ValidGatewaySpec(gwSpec)
    /\ FindCondition(gwStatus.conditions, AiGatewayReady).status = ConditionTrue

\* C4: after a pass in which the three child steps succeeded, each child has
\* exactly one owner reference, the controller reference to the gateway,
\* whether the pass created the child or found it stored already.
C4_OneOwnerReference ==
    (last.ran /\ last.outcome = "ok") =>
        \A kind \in ChildKinds :
            Stored(kind).ownerReferences = <<ControllerRef(GwKind, GwName)>>

\* C5: after a successful pass every entry of spec.env is in the env list of
\* the Deployment's container with its name and value, and every entry of
\* spec.envFrom is in the container's envFrom list.
C5_EnvPassedToDeployment ==
    (last.ran /\ last.outcome = "ok") =>
        /\ \A i \in DOMAIN gwSpec.env :
              \E j \in DOMAIN dep.podSpec.containers[1].env :
                 /\ dep.podSpec.containers[1].env[j].name = gwSpec.env[i].name
                 /\ dep.podSpec.containers[1].env[j].value = gwSpec.env[i].value
        /\ Range(gwSpec.envFrom) \subseteq Range(dep.podSpec.containers[1].envFrom)

\* what makes a ModelRouter spec of type litellm invalid, as the messages put it
InvalidCauses(modelRouter) ==
    (IF modelRouter.port <= 0
     THEN {"modelRouter port must be positive, got: " \o Itoa(modelRouter.port)} ELSE {})
    \cup (IF Len(modelRouter.aiModels) = 0 THEN {"no AI models specified in ModelRouter"} ELSE {})
    \cup (IF \E i \in DOMAIN modelRouter.aiModels : modelRouter.aiModels[i].name = <<>>
          THEN {"AI model name cannot be empty"} ELSE {})

\* C6: for a stored ModelRouter of type litellm whose spec has no model, a
\* model without a name or a port that is not positive, a pass leaves the
\* three children as they are and issues no call on them; when the status
\* write goes through, the stored status has ModelRouterConfigured False with
\* reason ConfigurationInvalid and a message naming a cause that applies,
\* ModelRouterReady False, and the pass returns no error.
C6_InvalidRouterRejected ==
    [][(/\ last'.ran
        /\ last'.hit # "getModelRouter"
        /\ mrExists
        /\ mrSpec.type = TypeLitellm
        /\ InvalidCauses(mrSpec) # {})
       => /\ cm' = cm /\ dep' = dep /\ svc' = svc
          /\ last'.calls = <<"Get ModelRouter", "UpdateStatus ModelRouter">>
          /\ last'.statusWrite = "ok" =>
                /\ FindCondition(mrStatus'.conditions, ModelRouterConfigured).status = ConditionFalse
                /\ FindCondition(mrStatus'.conditions, ModelRouterConfigured).reason
                      = ReasonConfigurationInvalid
                /\ FindCondition(mrStatus'.conditions, ModelRouterConfigured).message
                      \in { "ModelRouter configuration validation failed: " \o c :
                               c \in InvalidCauses(mrSpec) }
                /\ FindCondition(mrStatus'.conditions, ModelRouterReady).status = ConditionFalse
                /\ ~last'.err]_vars

C6_Witness ==
    /\ last.ran
    /\ last.outcome = "invalid"
    /\ last.statusWrite = "ok"
    /\ Len(mrSpec.aiModels) = 0
    /\ cm = NotFound
    /\ FindCondition(mrStatus.conditions, ModelRouterReady).status = ConditionFalse

\* C7: with no model, a model without a name or a port that is not positive,
\* a pass on a gateway that is processed creates no child and, when the status
\* write goes through, stores Configured False.
C7_InvalidGatewayRejected ==
    (/\ last.ran
     /\ last.hit = "none"
     /\ last.statusWrite = "ok"
     /\ ~ValidGatewaySpec(gwSpec))
    => /\ Range(last.calls) \cap ChildWriteCalls = {}
       /\ FindCondition(gwStatus.conditions, AiGatewayConfigured).status = ConditionFalse

\* C8: with every API call going through, a stored gateway is processed if
\* and only if it is the controller's by class name or, having no class name,
\* by the default class; a gateway that is not processed gets no child write,
\* no status write and no error.
C8_ProcessedIffResponsible ==
    (last.ran /\ last.hit = "none" /\ gwExists) =>
        /\ (last.outcome # "notResponsible") <=> Responsible(gwSpec, classes)
        /\ ~Responsible(gwSpec, classes) =>
              /\ last.calls = <<"Get AiGateway", "List AiGatewayClass">>
              /\ ~last.err

FailedStages == {"configFailed", "configMapFailed", "deploymentFailed", "serviceFailed"}

C10_ErrorOnlyFromStatusWrite ==
    (last.ran /\ last.err) => last.statusWrite = "failed"

\* C10 amended: a pass returns an error exactly when fetching the gateway
\* failed with an error other than not-found or when the status write failed;
\* a failure of listing the classes, of config generation, or of a get, create
\* or update of a child ends the pass without error once the status is written.
C10_ErrorFromFetchOrStatusWrite ==
    last.ran =>
        /\ last.err <=> (last.hit = "getAiGateway" \/ last.statusWrite = "failed")
        /\ (last.hit \in Faults \ {"none", "getAiGateway"} /\ last.statusWrite # "failed")
              => ~last.err

C10_Witness ==
    /\ last.ran
    /\ last.err
    /\ last.hit = "getAiGateway"
    /\ last.statusWrite = "none"

\* C11: when the gateway named in the request is not stored (and the Get
\* reports that), the pass issues no call but the Get, leaves the children and
\* the status as they are and returns no error.
C11_MissingGatewayNoWrite ==
    [][(last'.ran /\ ~gwExists /\ last'.hit # "getAiGateway") =>
          /\ last'.calls = <<"Get AiGateway">>
          /\ last'.statusWrite = "none"
          /\ cm' = cm /\ dep' = dep /\ svc' = svc
          /\ gwStatus' = gwStatus
          /\ ~last'.err]_vars

C11_Witness ==
    /\ last.ran
    /\ last.outcome = "notFound"
    /\ ~gwExists
    /\ cm # NotFound

\* the decimal text of the ports a gateway spec can hold here
DecimalText(n) == CHOOSE t \in {"0", "8000", "8080"} :
                     (n = 0 /\ t = "0") \/ (n = 8000 /\ t = "8000") \/ (n = 8080 /\ t = "8080")

C13_HashAnnotationFollowsConfig ==
    [][(last'.ran /\ last'.outcome = "ok") =>
          /\ ConfigHashAnnotation \in DOMAIN dep'.templateAnnotations
          /\ dep'.templateAnnotations[ConfigHashAnnotation] = Sha256Hex16(cm'.data["config.yaml"])
          /\ cm'.data["config.yaml"] = generateAiGatewayConfig(gwSpec, FALSE).configData
          /\ (/\ dep # NotFound
              /\ TextGet(dep.templateAnnotations, ConfigHashAnnotation)
                    # generateAiGatewayConfig(gwSpec, FALSE).configHash)
             => /\ "Update Deployment" \in Range(last'.calls)
                /\ TextGet(dep'.templateAnnotations, ConfigHashAnnotation)
                      # TextGet(dep.templateAnnotations, ConfigHashAnnotation)]_vars

C13_Witness ==
    /\ last.ran
    /\ last.outcome = "ok"
    /\ Len(gwSpec.aiModels) = 2
    /\ "Update ConfigMap" \in Range(last.calls)
    /\ "Update Deployment" \in Range(last.calls)
    /\ dep.ownerReferences # <<>>
    /\ dep.templateAnnotations[ConfigHashAnnotation] = Sha256Hex16(cm.data["config.yaml"])

\* C14: after a successful pass on a gateway with an ollama model, the env
\* list of the Deployment's container has no API-key variable for ollama,
\* while the variable of every openai model of the list is there.
C14_NoKeyVariableForOllama ==
    (/\ last.ran
     /\ last.outcome = "ok"
     /\ \E i \in DOMAIN gwSpec.aiModels : gwSpec.aiModels[i].provider = "ollama")
    => /\ \A j \in DOMAIN dep.podSpec.containers[1].env :
             dep.podSpec.containers[1].env[j].name # "OLLAMA_API_KEY"
       /\ (\E i \in DOMAIN gwSpec.aiModels : gwSpec.aiModels[i].provider = "openai")
             => \E j \in DOMAIN dep.podSpec.containers[1].env :
                   dep.podSpec.containers[1].env[j].name = "OPENAI_API_KEY"

\* the key name the mapping table of the specification gives for a provider;
\* "" stands for no api_key entry
TableKeyName(provider) ==
    CASE provider \in {"openai", "OpenAI"} -> "OPENAI_API_KEY"
      [] provider = "azure" -> "AZURE_API_KEY"
      [] provider = "gemini" -> "GEMINI_API_KEY"
      [] provider = "anthropic" -> "ANTHROPIC_API_KEY"
      [] provider \in {"bedrock", "BEDROCK"} -> "AWS_ACCESS_KEY_ID"
      [] provider = "huggingface" -> "HUGGINGFACE_API_KEY"
      [] provider = "ollama" -> ""
      [] provider = "custom" -> "CUSTOM_API_KEY"
      [] provider = "gpt-4" -> "GPT-4_API_KEY"
      [] provider = "" -> "_API_KEY"

\* C15: the api_key of each entry of the config rendered for a gateway names
\* the key the mapping table gives for the model's provider, and is left out
\* for ollama.
C15_ApiKeyFollowsTable ==
    (call.fn = "generateAiGatewayConfig" /\ call.result.err = Nil) =>
        \A i \in DOMAIN call.aiModels :
            call.result.configData.model_list[i].litellm_params.api_key
               = IF TableKeyName(call.aiModels[i].provider) = "" THEN ""
                 ELSE "os.environ/" \o TableKeyName(call.aiModels[i].provider)

\* the text of a model name before its first "/"
PrefixOf(modelName) ==
    IF modelName = <<>> THEN "" ELSE IF Head(modelName) = "/" THEN "" ELSE Head(modelName)

\* C16: mapModelToLiteLLMFormat returns the model name as it is and the key
\* name the table gives for the text before the first "/" (the whole name
\* when there is none), whatever its case; the empty name yields no key name.
C16_MapModelFollowsTable ==
    call.fn = "mapModelToLiteLLMFormat" =>
        /\ call.result.litellmModel = call.modelName
        /\ call.result.apiKeyEnvVar
              = IF call.modelName = <<>> THEN "" ELSE TableKeyName(PrefixOf(call.modelName))

C16_Witness ==
    /\ call.fn = "mapModelToLiteLLMFormat"
    /\ call.modelName = <<"huggingface", "/", "org", "/", "model">>
    /\ call.result.apiKeyEnvVar = "HUGGINGFACE_API_KEY"

\* C17: the config rendered for a gateway has one model_list entry per model
\* of the spec, in the order of the spec, with model_name the model's name
\* and litellm_params.model provider/name; request_timeout is 600.
C17_ModelListFollowsSpec ==
    (call.fn = "generateAiGatewayConfig" /\ call.result.err = Nil) =>
        /\ Len(call.result.configData.model_list) = Len(call.aiModels)
        /\ \A i \in DOMAIN call.aiModels :
              /\ call.result.configData.model_list[i].model_name = call.aiModels[i].name
              /\ call.result.configData.model_list[i].litellm_params.model
                    = call.aiModels[i].provider \o "/" \o call.aiModels[i].name
        /\ call.result.configData.litellm_settings.request_timeout = 600

C17_Witness ==
    /\ call.fn = "generateAiGatewayConfig"
    /\ call.result.err = Nil
    /\ Len(call.aiModels) = 2
    /\ call.aiModels[1].provider = "bedrock"
    /\ call.aiModels[2].provider = "openai"
    /\ call.result.configData.model_list[2].litellm_params.model = "openai/gpt-4"

\* the key names a config can refer to
KeyNames == { "OPENAI_API_KEY", "AZURE_API_KEY", "GEMINI_API_KEY", "ANTHROPIC_API_KEY",
              "AWS_ACCESS_KEY_ID", "BEDROCK_API_KEY", "HUGGINGFACE_API_KEY",
              "OLLAMA_API_KEY", "CUSTOM_API_KEY", "GPT-4_API_KEY", "_API_KEY" }

\* the key names a rendered config refers to as os.environ/<name>
ReferencedKeys(config) ==
    { n \in KeyNames : \E i \in DOMAIN config.model_list :
                          config.model_list[i].litellm_params.api_key = "os.environ/" \o n }

\* every api_key of the config is left out or refers to a known key name
KeysKnown(config) ==
    \A i \in DOMAIN config.model_list :
        \/ config.model_list[i].litellm_params.api_key = ""
        \/ \E n \in KeyNames : config.model_list[i].litellm_params.api_key = "os.environ/" \o n

\* LITELLM_LOG=INFO first, then one optional variable from secret
\* api-key-secrets per key name, no name twice
EnvListFor(env, keys) ==
    /\ Len(env) = 1 + Cardinality(keys)
    /\ env[1] = [name |-> "LITELLM_LOG", value |-> "INFO", valueFrom |-> NoSource]
    /\ \A n \in keys : \E j \in 2..Len(env) : env[j].name = n
    /\ \A j \in 2..Len(env) :
          /\ env[j].name \in keys
          /\ env[j].valueFrom
                = [secretKeyRef |-> [name |-> "api-key-secrets", key |-> env[j].name,
                                     optional |-> TRUE]]
    /\ \A j, k \in DOMAIN env : env[j].name = env[k].name => j = k

SameMultiset(a, b) ==
    \A x \in Range(a) \cup Range(b) :
        Cardinality({ i \in DOMAIN a : a[i] = x }) = Cardinality({ i \in DOMAIN b : b[i] = x })

\* C19: AiModelsEqual is true for two lists of which one is a rearrangement
\* of the other, repeated elements included, and false for two lists that
\* differ as multisets.
C19_AiModelsEqualIsMultisetEquality ==
    call.fn = "AiModelsEqual" =>
        /\ (call.a.isNil = call.b.isNil /\ SameMultiset(call.a.elems, call.b.elems))
              => call.result
        /\ ~SameMultiset(call.a.elems, call.b.elems) => ~call.result

C19_Witness ==
    /\ call.fn = "AiModelsEqual"
    /\ call.result
    /\ Len(call.a.elems) = 2
    /\ call.a.elems # call.b.elems
    /\ call.a.elems[1].provider = call.a.elems[2].provider

EntriesNamed(list, name) ==
    LET HasName(e) == e.name = name IN SelectSeq(list, HasName)

C21_NilDiffersFromEmpty ==
    (call # NoCall /\ call.fn \in {"AiModelsEqual", "EnvVarsEqual", "LabelsEqual"}) =>
        LET empty == IF call.fn = "LabelsEqual" THEN GoMap(NoLabels) ELSE Slice(<<>>)
            nil == IF call.fn = "LabelsEqual" THEN NilMap ELSE NilSlice
        IN /\ (call.a = nil /\ call.b = empty) => call.result = FALSE
           /\ (call.a = empty /\ call.b = nil) => call.result = FALSE
           /\ (call.a = nil /\ call.b = nil) => call.result = TRUE
           /\ (call.a = empty /\ call.b = empty) => call.result = TRUE

C21_Witness ==
    /\ call # NoCall
    /\ call.fn = "LabelsEqual"
    /\ call.a = NilMap
    /\ call.b = GoMap(NoLabels)
    /\ call.result = FALSE

\* a map as its set of key-value pairs
Pairs(entries) == { <<key, entries[key]>> : key \in DOMAIN entries }

\* C22: RequiredLabelsPresent(existing, required) is true exactly when every
\* entry of required is an entry of existing; entries of existing under other
\* keys do not matter, and a nil existing map gives true exactly when required
\* is nil or empty.
C22_RequiredLabelsAreSubset ==
    (call # NoCall /\ call.fn = "RequiredLabelsPresent") =>
        /\ call.result = (Pairs(call.required.entries) \subseteq Pairs(call.existing.entries))
        /\ call.existing = NilMap =>
               call.result = (call.required \in {NilMap, GoMap(NoLabels)})

\* existing {app: test, version: other}, required {app: test}
C22_Witness ==
    /\ call # NoCall
    /\ call.fn = "RequiredLabelsPresent"
    /\ call.existing = GoMap("app" :> "test" @@ "version" :> "other")
    /\ call.required = GoMap("app" :> "test")
    /\ call.result = TRUE

C24_ReorderingTriggersNoUpdate ==
    (last.ran /\ last.prior = "reordered") =>
        Range(last.calls) \cap {"Update ConfigMap", "Update Deployment"} = {}

\* C25: after a pass of the AiGateway reconciler that completed the three
\* child steps and persisted the status, the status holds the config hash
\* that the pass placed on the Deployment, and a time of last update.
C25_StatusRecordsConfigHash ==
    (last.ran /\ last.outcome = "ok" /\ last.statusWrite = "ok" /\ gwExists) =>
        /\ gwStatus.configHash = TextGet(dep.templateAnnotations, ConfigHashAnnotation)
        /\ gwStatus.lastUpdated # Nil

\* C26: a pass on a stored ModelRouter whose spec.type is not litellm, in
\* which no status write fails, persists ModelRouterConfigured False.
C26_UnknownTypeReported ==
    [][(/\ last'.ran
        /\ last'.hit # "getModelRouter"
        /\ last'.statusWrite # "failed"
        /\ mrExists
        /\ mrSpec.type # TypeLitellm)
       => FindCondition(mrStatus'.conditions, ModelRouterConfigured).status = ConditionFalse]_vars

\* C27: when another actor has added a label to a child of the ModelRouter
\* after a successful pass, the next pass of the ModelRouter reconciler issues
\* no Update on that child, and whatever the pass does, the label is on the
\* child afterwards with its value.
C27_RouterKeepsForeignLabel ==
    [][(last'.ran /\ sync = "labelled" /\ mrExists) =>
         \A kind \in ChildKinds :
            LET before == Stored(kind)
                after == Stored(kind)'
            IN (before # NotFound /\ "team" \in DOMAIN before.labels) =>
                  /\ ("Update " \o kind) \notin Range(last'.calls)
                  /\ after # NotFound
                  /\ "team" \in DOMAIN after.labels
                  /\ after.labels["team"] = before.labels["team"]]_vars

\* C28: a stored ModelRouter never has the port left unspecified (the zero
\* value): the defaulting webhook has set it to 4000 before the object was
\* stored, so no pass rejects the object for a port that was not given.
C28_MissingPortDefaulted ==
    mrExists => mrSpec.port # 0

\* a model name of the form provider/model-name
ProviderSlashModel(modelName) ==
    /\ Len(modelName) >= 3
    /\ modelName[1] # "/"
    /\ modelName[2] = "/"
    /\ modelName[3] # "/"

\* C29: every stored ModelRouter has a positive port and only model names of
\* the form provider/model-name: the validating webhook has rejected every
\* create and update request for another object.
C29_InvalidRouterNeverStored ==
    mrExists =>
        /\ mrSpec.port > 0
        /\ \A i \in DOMAIN mrSpec.aiModels : ProviderSlashModel(mrSpec.aiModels[i].name)

\* the child a call is made on: 1 ConfigMap, 2 Deployment, 3 Service, 0 otherwise
ChildRank(apiCall) ==
    CASE apiCall \in {"Get ConfigMap", "Create ConfigMap", "Update ConfigMap"} -> 1
      [] apiCall \in {"Get Deployment", "Create Deployment", "Update Deployment"} -> 2
      [] apiCall \in {"Get Service", "Create Service", "Update Service"} -> 3
      [] OTHER -> 0

\* C30: in one pass of the AiGateway reconciler the calls on the ConfigMap
\* come before those on the Deployment, and those before the calls on the
\* Service.  A call on the Deployment is made only in a pass whose ConfigMap
\* step succeeded (no call on the ConfigMap failed, and the ConfigMap is
\* stored with the rendered config), and a call on the Service only in a
\* pass whose Deployment step succeeded as well.
C30_ChildrenInOrder ==
    last.ran =>
        LET calls == last.calls
            Touched(rank) == \E i \in DOMAIN calls : ChildRank(calls[i]) = rank
        IN /\ \A i, j \in DOMAIN calls :
                 (i < j /\ ChildRank(calls[i]) > 0 /\ ChildRank(calls[j]) > 0) =>
                     ChildRank(calls[i]) <= ChildRank(calls[j])
           /\ Touched(2) =>
                 /\ Touched(1)
                 /\ last.hit \notin {"getConfigMap", "writeConfigMap"}
                 /\ cm # NotFound
                 /\ TextGet(cm.data, "config.yaml") = generateAiGatewayConfig(gwSpec, FALSE).configData
           /\ Touched(3) =>
                 /\ Touched(2)
                 /\ last.hit \notin {"getConfigMap", "writeConfigMap",
                                      "getDeployment", "writeDeployment"}
                 /\ dep # NotFound

\* a pass in which the update of the Deployment failed after the ConfigMap step
C30_Witness ==
    /\ last.ran
    /\ last.hit = "writeDeployment"
    /\ "Get ConfigMap" \in Range(last.calls)
    /\ "Update Deployment" \in Range(last.calls)
    /\ "Get Service" \notin Range(last.calls)

\* the Deployment d has the replicas, selector, image, command, port, env and
\* config volume that reconcileDeployment computes from the spec
DeploymentMatchesSpec(d, aiGateway) ==
    /\ d.replicas = 1
    /\ d.selector = ("app" :> GwName)
    /\ \E order \in SeqsOver(ApiKeyEnvVars(aiGateway)) : d.podSpec = PodSpec(aiGateway, order)

\* the Service s has the selector, type, port and targetPort that
\* reconcileService computes from the spec
ServiceMatchesSpec(s, aiGateway) ==
    /\ s.selector = ("app" :> GwName)
    /\ s.type = "ClusterIP"
    /\ Len(s.ports) = 1
    /\ s.ports[1].port = aiGateway.port
    /\ s.ports[1].targetPort = aiGateway.port

\* the three children are stored and carry what the spec asks for
ChildrenMatchSpec ==
    /\ cm # NotFound /\ dep # NotFound /\ svc # NotFound
    /\ TextGet(cm.data, "config.yaml") = generateAiGatewayConfig(gwSpec, FALSE).configData
    /\ TextGet(dep.templateAnnotations, ConfigHashAnnotation)
          = Sha256Hex16(TextGet(cm.data, "config.yaml"))
    /\ MapGet(dep.labels, "app") = GwName
    /\ DeploymentMatchesSpec(dep, gwSpec)
    /\ MapGet(svc.labels, "app") = GwName
    /\ ServiceMatchesSpec(svc, gwSpec)

\* both conditions are persisted with status True
ConfiguredAndReady ==
    /\ FindCondition(gwStatus.conditions, AiGatewayConfigured).status = ConditionTrue
    /\ FindCondition(gwStatus.conditions, AiGatewayReady).status = ConditionTrue

\* C31: when passes keep being triggered and failures are transient, from
\* some point on a stored gateway with a valid spec that belongs to this
\* controller has its three children stored and matching the spec, with
\* Configured and Ready both True: conditions set to False by earlier passes
\* have been overwritten.
C31_EventuallyReady ==
    <>[]((gwExists /\ Responsible(gwSpec, classes) /\ ValidGatewaySpec(gwSpec)) =>
            (ChildrenMatchSpec /\ ConfiguredAndReady))

\* the entries of the map old, except those under the key own, are in new
\* with the same value
OthersKept(old, new, own) ==
    \A k \in (DOMAIN old) \ {own} : k \in DOMAIN new /\ new[k] = old[k]

\* C32: a pass that issues an Update of an existing ConfigMap, Deployment or
\* Service leaves every label of the object and of the pod template whose key
\* is not "app", and every pod template annotation other than the config
\* hash, with the value it had before the pass.
C32_UpdateKeepsForeignEntries ==
    [][last'.ran =>
        /\ "Update ConfigMap" \in Range(last'.calls) =>
                cm' # NotFound /\ OthersKept(cm.labels, cm'.labels, "app")
        /\ "Update Deployment" \in Range(last'.calls) =>
                /\ dep' # NotFound
                /\ OthersKept(dep.labels, dep'.labels, "app")
                /\ OthersKept(dep.templateLabels, dep'.templateLabels, "app")
                /\ OthersKept(dep.templateAnnotations, dep'.templateAnnotations,
                              ConfigHashAnnotation)
        /\ "Update Service" \in Range(last'.calls) =>
                svc' # NotFound /\ OthersKept(svc.labels, svc'.labels, "app")]_vars

\* a pass has updated a Deployment that carries a label, a pod template label
\* and a pod template annotation of other actors, and its own entries are set
C32_Witness ==
    /\ last.ran
    /\ last.hit = "none"
    /\ "Update Deployment" \in Range(last.calls)
    /\ MapGet(dep.labels, "team") = "blue"
    /\ MapGet(dep.labels, "app") = GwName
    /\ MapGet(dep.templateLabels, "tier") = "web"
    /\ MapGet(dep.templateLabels, "app") = GwName
    /\ "note" \in DOMAIN dep.templateAnnotations
    /\ ConfigHashAnnotation \in DOMAIN dep.templateAnnotations

\* C33: a pass never deletes a child and never undoes a write. A child stored
\* before a pass is stored after it; a ConfigMap whose Create went through is
\* stored after the pass, also when a later step of the same pass failed; and a
\* pass that starts with the ConfigMap stored does not create it again.
C33_NoDeleteNoRollback ==
    [][last'.ran =>
        /\ cm # NotFound => cm' # NotFound
        /\ dep # NotFound => dep' # NotFound
        /\ svc # NotFound => svc' # NotFound
        /\ ("Create ConfigMap" \in Range(last'.calls) /\ last'.hit # "writeConfigMap")
              => cm' # NotFound
        /\ ("Create Deployment" \in Range(last'.calls) /\ last'.hit # "writeDeployment")
              => dep' # NotFound
        /\ cm # NotFound => "Create ConfigMap" \notin Range(last'.calls)
        /\ dep # NotFound => "Create Deployment" \notin Range(last'.calls)
        /\ svc # NotFound => "Create Service" \notin Range(last'.calls)]_vars

\* a pass created the ConfigMap and failed at the Deployment: the ConfigMap is
\* stored, the Deployment is not
C33_Witness ==
    /\ last.ran
    /\ last.hit \in {"getDeployment", "writeDeployment"}
    /\ last.outcome = "deploymentFailed"
    /\ "Create ConfigMap" \in Range(last.calls)
    /\ cm # NotFound
    /\ dep = NotFound

\* C34: each call of updateCondition on a list without duplicate types
\* replaces the entry of the given type where it stands, leaving the other
\* entries as they were, or appends the new entry when the type is not in the
\* list; after every call of a sequence of calls the list has at most one
\* condition per type and is no shorter than before.
C34_ReplaceInPlaceOrAppend ==
    call.fn = "updateCondition" =>
        LET all == <<call.conditions>> \o call.lists
        IN \A n \in DOMAIN call.updates :
            LET before == all[n]
                after == all[n + 1]
                new == Condition(call.updates[n].type, call.updates[n].status, "Now", "set now")
            IN /\ IF \E i \in DOMAIN before : before[i].type = new.type
                  THEN /\ Len(after) = Len(before)
                       /\ \A i \in DOMAIN before :
                             after[i] = IF before[i].type = new.type THEN new ELSE before[i]
                  ELSE after = Append(before, new)
               /\ NoDuplicateTypes(after)
               /\ Len(after) >= Len(before)

\* a first call replaced the second entry of a list of two and a second call
\* appended an entry of a new type
C34_Witness ==
    /\ call.fn = "updateCondition"
    /\ Len(call.updates) >= 2
    /\ Len(call.conditions) = 2
    /\ call.conditions[2].type = call.updates[1].type
    /\ call.lists[1][1] = call.conditions[1]
    /\ call.lists[1][2].reason = "Now"
    /\ Len(call.lists[2]) = 3

\* the number of calls of the pass that are one of the given calls
CallCount(calls, which) == Cardinality({ i \in DOMAIN calls : calls[i] \in which })

\* C35: every pass returns the empty Result (no requeue asked for), issues at
\* most one Create or Update for each child and at most one status write, and
\* issues no API call twice: a failed call is not tried again.
C35_NoRequeueOneWriteEach ==
    last.ran =>
        /\ last.result = [requeue |-> FALSE, requeueAfter |-> 0]
        /\ \A kind \in ChildKinds :
              CallCount(last.calls, {"Create " \o kind, "Update " \o kind}) <= 1
        /\ CallCount(last.calls, {"UpdateStatus AiGateway"}) <= 1
        /\ \A c \in Range(last.calls) : CallCount(last.calls, {c}) = 1

\* a pass created the ConfigMap and the Deployment, failed to create the
\* Service and wrote the status
C35_Witness ==
    /\ last.ran
    /\ last.hit = "writeService"
    /\ "Create ConfigMap" \in Range(last.calls)
    /\ "Create Deployment" \in Range(last.calls)
    /\ "Create Service" \in Range(last.calls)
    /\ "UpdateStatus AiGateway" \in Range(last.calls)
    /\ svc = NotFound

\* C36: in every persisted status of the gateway, a Ready condition with
\* status True comes with a Configured condition with status True.
C36_ReadyImpliesConfigured ==
    FindCondition(gwStatus.conditions, AiGatewayReady).status = ConditionTrue =>
        FindCondition(gwStatus.conditions, AiGatewayConfigured).status = ConditionTrue

\* the controller owner reference of the object points at the gateway
OwnedByGateway(obj) ==
    \E i \in DOMAIN obj.ownerReferences : obj.ownerReferences[i] = ControllerRef(GwKind, GwName)

\* C37: a pass issues an Update only for a ConfigMap, Deployment or Service
\* whose controller owner reference points at the gateway; an object of the
\* expected name that nobody or somebody else owns is left as it is.
C37_UpdatesOnlyOwnedChildren ==
    [][last'.ran =>
        /\ "Update ConfigMap" \in Range(last'.calls) => OwnedByGateway(cm)
        /\ "Update Deployment" \in Range(last'.calls) => OwnedByGateway(dep)
        /\ "Update Service" \in Range(last'.calls) => OwnedByGateway(svc)
        /\ (cm # NotFound /\ ~OwnedByGateway(cm)) => cm' = cm
        /\ (dep # NotFound /\ ~OwnedByGateway(dep)) => dep' = dep
        /\ (svc # NotFound /\ ~OwnedByGateway(svc)) => svc' = svc]_vars

\* C38: after a pass in which every step went through, the replicas, selector,
\* image, command, port, env and config volume of the Deployment and the
\* selector, type, port and targetPort of the Service are the ones computed
\* from the spec, whatever the objects held before the pass.
C38_ChildrenEqualDesired ==
    (last.ran /\ last.outcome = "ok") =>
        /\ dep # NotFound /\ DeploymentMatchesSpec(dep, gwSpec)
        /\ svc # NotFound /\ ServiceMatchesSpec(svc, gwSpec)

\* the outcome of a pass that failed at the step of the given child
FailedAt(kind) ==
    IF kind = "ConfigMap" THEN "configMapFailed"
    ELSE IF kind = "Deployment" THEN "deploymentFailed" ELSE "serviceFailed"

====
